---- MODULE Spec2Model ----
(***************************************************************************)
(* Fetch-orchestration engine of Volltextextraktion-Selenium-MD.           *)
(*                                                                         *)
(*  - the renderer worker pool of app/js_fetcher.py (_get_driver,          *)
(*    _return_driver, the three scaling operations), run by threads of the *)
(*    thread pool that _selenium_fetch is offloaded to;                    *)
(*  - the admission controller of app/main.py                              *)
(*    (SmartCapacityMiddleware.dispatch), run by asyncio tasks;            *)
(*  - the time budget of one render (TimeBudget in app/js_fetcher.py);     *)
(*  - the direct fetcher of app/http_fetcher.py (fetch_with_httpx);        *)
(*  - the preflight classifier of app/preflight.py and the routing of its  *)
(*    result in the crawl endpoint of app/main.py;                         *)
(*  - the render executor of app/js_fetcher.py (_selenium_fetch and its    *)
(*    fallbacks on a disposable worker).                                   *)
(*                                                                         *)
(* A step of a thread is the code between two points at which another      *)
(* thread can observe or change the shared state: a lock acquisition, a    *)
(* blocking queue get, a driver creation.  A step of a task is the code    *)
(* between two awaits that can suspend it.                                 *)
(***************************************************************************)
EXTENDS Integers, Sequences, FiniteSets, TLC

(***************************************************************************)
(* Configuration (app/config.py) and the bounds of the model.              *)
(***************************************************************************)
\* settings.selenium_pool_size: the floor of every pool
selenium_pool_size == 1
\* settings.selenium_max_pool_size: the ceiling of every pool
selenium_max_pool_size == 2
\* settings.selenium_scale_threshold = 0.8, as the ratio 8 / 10
scale_threshold_num == 8
scale_threshold_den == 10
\* _maybe_scale_down: available > current_size * 0.7, current_usage < current_size * 0.3
scale_down_idle_tenths == 7
scale_down_usage_tenths == 3
\* settings.max_queue_size: the waiting room of the admission controller
max_queue_size == 1

\* threads running _selenium_fetch concurrently
NumThreads == 3
\* driver objects alive at the same time; _create_driver fails beyond it
MaxDrivers == 3
\* calls of _sync_fetch in one run
MaxFetches == 3
\* /crawl requests
NumRequests == 4
\* timeout_seconds of _get_driver: min(timeout_seconds, 30) of the fetch
acquire_timeout == 2
\* the timeout of the retry get, js_fetcher.py line 223
retry_timeout == 5
\* _sync_fetch, line 728: _get_driver(js_strategy, timeout_seconds=min(timeout_seconds, 30))
acquire_cap == 30
\* _sync_fetch, line 738: nav_cap = 8
nav_cap == 8
\* _attempt_with_temp_driver, line 581: WebDriverWait(temp, min(10, effective_to))
ready_cap == 10

Keys == {"normal", "eager"}
Strategies == {"speed", "accuracy"}
Threads == 1..NumThreads
DriverIds == 1..MaxDrivers
NoDriver == 0
NoThread == 0
Requests == 1..NumRequests
\* the monotonic clock is observed up to this tick
MaxClock == 3
\* the largest duration (seconds, desired, floor) a caller passes
MaxSeconds == 3
\* the longest response body, in bytes
MaxBody == 4
\* the largest byte cap max_bytes of a request
MaxCap == 3
\* the largest number of retries of a request
MaxRetries == 3
\* the largest timeout_seconds of a request
MaxTimeout == 4

VARIABLES
    \* ---- app/js_fetcher.py, module state
    _driver_pools,      \* key -> sequence of driver ids (queue.Queue, FIFO)
    _pool_sizes,        \* key -> int
    _pool_usage,        \* key -> int
    _pool_initialized,  \* key -> bool
    _pool_lock,         \* the thread holding it, or NoThread
    _scaling_lock,      \* the thread holding it, or NoThread
    drivers,            \* driver id -> [key, st]: _strategy_key and "free" | "ok" | "dead"
    \* ---- one thread of the thread pool running _sync_fetch
    tpc,                \* thread -> position in _get_driver / _return_driver
    tkey,               \* thread -> the local `key`
    tdriver,            \* thread -> the local `driver`
    fetches_started,    \* calls of _sync_fetch so far
    tblocked,           \* thread -> seconds that the get() calls of its _get_driver
                        \*           which ran into their timeout have blocked
    \* ---- app/main.py, module state
    _concurrent_requests,
    _waiting_count,
    _request_semaphore, \* free permits of asyncio.Semaphore(_max_concurrent)
    _request_lock,      \* asyncio.Lock: TRUE while held
    \* ---- one task running SmartCapacityMiddleware.dispatch
    rpc,                \* request -> position in dispatch
    acquired,           \* request -> the local `acquired`
    queued,             \* request -> it incremented _waiting_count on arrival
    status_code,        \* request -> status of the response returned, 0 before
    decrements,         \* request -> times it decremented _concurrent_requests
    releases,           \* request -> times it released _request_semaphore
    \* ---- one TimeBudget object and the clock it reads
    monotonic,          \* time.monotonic()
    deadline,           \* TimeBudget.deadline
    budget_call,        \* the last call of left() or slice(): arguments and result
    \* ---- one call of fetch_with_httpx (app/http_fetcher.py)
    http_pc,            \* "idle" | "stream" | "break" | "returned" | "raised"
    http_body,          \* length of the response body the server holds
    http_max_bytes,     \* the parameter max_bytes
    http_retries,       \* the parameter retries
    http_attempt,       \* the loop variable `attempt`
    http_status,        \* resp.status_code
    http_pos,           \* bytes of the body delivered so far in this attempt
    http_buf,           \* the local `buf`
    http_result,        \* the tuple returned: status and bytes
    http_excs,          \* the exceptions of the failed attempts, in order
    http_sleeps,        \* the arguments of the asyncio.sleep calls, in order
    http_raised,        \* the exception fetch_with_httpx raised, "none" before
    \* ---- one call of preflight (app/preflight.py)
    probe_pc,           \* "idle" | "returned" | "raised"
    probe_page,         \* the page probed
    probe_max_bytes,    \* max_bytes of the request the probe is made for
    pf,                 \* the dict returned
    \* ---- one call of crawl (app/main.py)
    crawl_pc,           \* "idle" | "fast" | "js" | "done"
    crawl_mode,         \* req.mode
    crawl_max_bytes,    \* the local `max_bytes`
    crawl_page,         \* the page behind req.url
    crawl_outcome,      \* (status, final_url, data, ctype), or the HTTPException raised
    renderer_calls,     \* calls of fetch_with_playwright made by crawl
    \* ---- one call of _selenium_fetch._sync_fetch (app/js_fetcher.py)
    f_pc,               \* position in _sync_fetch
    f_strategy,         \* the parameter js_strategy
    f_retries,          \* the parameter retries
    f_timeout,          \* the parameter timeout_seconds
    f_start,            \* time.monotonic() when _sync_fetch was called
    f_ready_wait,       \* the timeout of the last readiness wait, in tenths of a second
    f_error_page,       \* _detect_error_pages is true of the markup the renderer holds
    f_probes,           \* same-origin status probes made by this fetch
    f_max_bytes,        \* the parameter max_bytes
    f_content,          \* length of the page source the renderer holds
    f_attempt,          \* the loop variable `attempt`
    f_exc,              \* the exception `e` being handled
    f_last_exc,         \* the local `last_exc`
    did_early_accuracy, \* the local `did_early_accuracy`
    f_first,            \* the exception of the first attempt and budget.left() then
    f_escalations,      \* calls of _attempt_with_temp_driver so far
    f_driver,           \* the local `driver`: "none" or "held"
    f_acquires,         \* calls of _get_driver that returned a worker
    f_returns,          \* calls of _return_driver
    f_pending,          \* the return value or exception pending in the finally
    f_result            \* what _sync_fetch returned or raised

poolVars == <<_driver_pools, _pool_sizes, _pool_usage, _pool_initialized,
              _pool_lock, _scaling_lock, drivers, tpc, tkey, tdriver, fetches_started,
              tblocked>>
admVars == <<_concurrent_requests, _waiting_count, _request_semaphore, _request_lock,
             rpc, acquired, queued, status_code, decrements, releases>>
budgetVars == <<monotonic, deadline, budget_call>>
httpVars == <<http_pc, http_body, http_max_bytes, http_retries, http_attempt,
              http_status, http_pos, http_buf, http_result,
              http_excs, http_sleeps, http_raised>>
probeVars == <<probe_pc, probe_page, probe_max_bytes, pf>>
crawlVars == <<crawl_pc, crawl_mode, crawl_max_bytes, crawl_page, crawl_outcome,
               renderer_calls>>
renderVars == <<f_pc, f_strategy, f_retries, f_timeout, f_start, f_ready_wait, f_error_page, f_probes, f_max_bytes, f_content, f_attempt,
                f_exc, f_last_exc, did_early_accuracy, f_first, f_escalations,
                f_driver, f_acquires, f_returns, f_pending, f_result>>
fetchVars == <<budgetVars, httpVars, probeVars, crawlVars, renderVars>>
vars == <<poolVars, admVars, fetchVars>>

(***************************************************************************)
(* Renderer worker pool: app/js_fetcher.py                                 *)
(***************************************************************************)
Max(a, b) == IF a >= b THEN a ELSE b

\* def _pick_strategy_key(js_strategy)
_pick_strategy_key(js_strategy) == IF js_strategy = "speed" THEN "eager" ELSE "normal"

FreeIds == {d \in DriverIds : drivers[d].st = "free"}
MinOf(S) == CHOOSE x \in S : \A y \in S : x <= y

\* The first n free driver ids, lowest first: the objects n successful
\* _create_driver calls return.
RECURSIVE NewIds(_, _)
NewIds(n, free) ==
    IF n = 0 \/ free = {} THEN <<>>
    ELSE <<MinOf(free)>> \o NewIds(n - 1, free \ {MinOf(free)})

\* _create_driver(page_load_strategy=...): the driver objects after the ids of
\* `ids` were created for pool `key` (setattr(driver, "_strategy_key", ...)).
Created(ds, ids, key) ==
    [d \in DriverIds |->
        IF \E i \in 1..Len(ids) : ids[i] = d THEN [key |-> key, st |-> "ok"] ELSE ds[d]]

\* A driver object nobody refers to any more.
Dropped(ds, d) == [ds EXCEPT ![d] = [key |-> "normal", st |-> "free"]]

\* queue.Queue.put / get: FIFO
QueuePut(q, d) == Append(q, d)
QueueHead(q) == Head(q)
QueueRest(q) == Tail(q)

\* Mutant: the scaling operations do not serialise on _scaling_lock.
ScalingLockIgnored == TRUE

\* with _scaling_lock: the lock can be taken
ScalingLockFree == _scaling_lock = NoThread
PoolLockFree == _pool_lock = NoThread

InitPool ==
    /\ _driver_pools = [k \in Keys |-> <<>>]
    /\ _pool_sizes = [k \in Keys |-> selenium_pool_size]
    /\ _pool_usage = [k \in Keys |-> 0]
    /\ _pool_initialized = [k \in Keys |-> FALSE]
    /\ _pool_lock = NoThread
    /\ _scaling_lock = NoThread
    /\ drivers = [d \in DriverIds |-> [key |-> "normal", st |-> "free"]]
    /\ tpc = [t \in Threads |-> "idle"]
    /\ tkey = [t \in Threads |-> "normal"]
    /\ tdriver = [t \in Threads |-> NoDriver]
    /\ fetches_started = 0
    /\ tblocked = [t \in Threads |-> 0]

\* _get_driver, lines 204-206: key = _pick_strategy_key(js_strategy) and the
\* unlocked read of _pool_initialized.
GetDriverStart(t) ==
    /\ tpc[t] = "idle"
    /\ fetches_started < MaxFetches
    /\ fetches_started' = fetches_started + 1
    /\ \E js \in Strategies :
        LET key == _pick_strategy_key(js) IN
        /\ tkey' = [tkey EXCEPT ![t] = key]
        /\ tpc' = [tpc EXCEPT ![t] = IF _pool_initialized[key] THEN "scale" ELSE "init"]
    /\ tblocked' = [tblocked EXCEPT ![t] = 0]
    /\ UNCHANGED <<_driver_pools, _pool_sizes, _pool_usage, _pool_initialized,
                   _pool_lock, _scaling_lock, drivers, tdriver>>
    /\ UNCHANGED <<admVars, fetchVars>>

\* _initialize_pool: with _pool_lock, and the check of the flag under the lock.
InitializePoolLock(t) ==
    /\ tpc[t] = "init"
    /\ PoolLockFree
    /\ IF _pool_initialized[tkey[t]]
       THEN /\ tpc' = [tpc EXCEPT ![t] = "scale"]
            /\ UNCHANGED _pool_lock
       ELSE /\ tpc' = [tpc EXCEPT ![t] = "init_cs"]
            /\ _pool_lock' = t
    /\ UNCHANGED <<_driver_pools, _pool_sizes, _pool_usage, _pool_initialized,
                   _scaling_lock, drivers, tkey, tdriver>>
    /\ UNCHANGED <<fetches_started, tblocked, admVars, fetchVars>>

\* _initialize_pool: the loop creating _pool_sizes[key] drivers.  n of them are
\* created before _create_driver raises; with n = initial_size the flag is set,
\* otherwise the exception leaves _get_driver (the fetch fails, the flag stays False).
InitializePoolFill(t) ==
    /\ tpc[t] = "init_cs"
    /\ LET key == tkey[t]
           initial_size == _pool_sizes[key] IN
       \E n \in 0..initial_size :
        LET ids == NewIds(n, FreeIds) IN
        /\ Len(ids) = n
        /\ drivers' = Created(drivers, ids, key)
        /\ _driver_pools' = [_driver_pools EXCEPT ![key] = @ \o ids]
        /\ IF n = initial_size
           THEN /\ _pool_initialized' = [_pool_initialized EXCEPT ![key] = TRUE]
                /\ tpc' = [tpc EXCEPT ![t] = "scale"]
           ELSE /\ UNCHANGED _pool_initialized
                /\ tpc' = [tpc EXCEPT ![t] = "idle"]
    /\ _pool_lock' = NoThread
    /\ UNCHANGED <<_pool_sizes, _pool_usage, _scaling_lock, tkey, tdriver>>
    /\ UNCHANGED <<fetches_started, tblocked, admVars, fetchVars>>

\* _maybe_scale_pool, line 283 with `available < 1` for `available <= 1`
ShouldScaleUpWhenEmpty(key) ==
    /\ _pool_usage[key] * scale_threshold_den
          >= scale_threshold_num * Max(_pool_sizes[key], 1)
    /\ Len(_driver_pools[key]) < 1
    /\ _pool_sizes[key] < selenium_max_pool_size

\* _maybe_scale_pool, lines 281-284: the scale-up condition
\* usage_ratio >= threshold and available <= 1 and current_size < max.
ShouldScaleUp(key) ==
    /\ _pool_usage[key] * scale_threshold_den
          >= scale_threshold_num * Max(_pool_sizes[key], 1)
    /\ Len(_driver_pools[key]) <= 1
    /\ _pool_sizes[key] < selenium_max_pool_size

\* _maybe_scale_pool: with _scaling_lock, read the counters and decide.
MaybeScalePoolCheck(t) ==
    /\ tpc[t] = "scale"
    /\ ScalingLockFree
    /\ IF ShouldScaleUp(tkey[t])
       THEN /\ _scaling_lock' = t
            /\ tpc' = [tpc EXCEPT ![t] = "scale_cs"]
       ELSE /\ UNCHANGED _scaling_lock
            /\ tpc' = [tpc EXCEPT ![t] = "incr"]
    /\ UNCHANGED <<_driver_pools, _pool_sizes, _pool_usage, _pool_initialized,
                   _pool_lock, drivers, tkey, tdriver>>
    /\ UNCHANGED <<fetches_started, tblocked, admVars, fetchVars>>

\* _maybe_scale_pool, lines 287-294: create a driver, put it, _pool_sizes += 1;
\* a failing _create_driver is caught and changes nothing.
MaybeScalePoolAdd(t) ==
    /\ tpc[t] = "scale_cs"
    /\ LET key == tkey[t] IN
       \/ /\ FreeIds # {}
          /\ LET d == MinOf(FreeIds) IN
             /\ drivers' = Created(drivers, <<d>>, key)
             /\ _driver_pools' = [_driver_pools EXCEPT ![key] = QueuePut(@, d)]
          /\ _pool_sizes' = [_pool_sizes EXCEPT ![key] = @ + 1]
       \/ UNCHANGED <<drivers, _driver_pools, _pool_sizes>>
    /\ _scaling_lock' = NoThread
    /\ tpc' = [tpc EXCEPT ![t] = "incr"]
    /\ UNCHANGED <<_pool_usage, _pool_initialized, _pool_lock, tkey, tdriver>>
    /\ UNCHANGED <<fetches_started, tblocked, admVars, fetchVars>>

\* _get_driver, lines 213-214: with _scaling_lock: _pool_usage[key] += 1
GetDriverCount(t) ==
    /\ tpc[t] = "incr"
    /\ ScalingLockFree
    /\ _pool_usage' = [_pool_usage EXCEPT ![tkey[t]] = @ + 1]
    /\ tpc' = [tpc EXCEPT ![t] = "get"]
    /\ UNCHANGED <<_driver_pools, _pool_sizes, _pool_initialized, _pool_lock,
                   _scaling_lock, drivers, tkey, tdriver>>
    /\ UNCHANGED <<fetches_started, tblocked, admVars, fetchVars>>

\* _get_driver, lines 217-218 and 223-224: _driver_pools[key].get(timeout=...)
\* returns the head of the queue.
GetDriverTake(t) ==
    /\ tpc[t] \in {"get", "retry"}
    /\ _driver_pools[tkey[t]] # <<>>
    /\ tdriver' = [tdriver EXCEPT ![t] = QueueHead(_driver_pools[tkey[t]])]
    /\ _driver_pools' = [_driver_pools EXCEPT ![tkey[t]] = QueueRest(@)]
    /\ tpc' = [tpc EXCEPT ![t] = "have"]
    /\ UNCHANGED <<_pool_sizes, _pool_usage, _pool_initialized, _pool_lock,
                   _scaling_lock, drivers, tkey>>
    /\ UNCHANGED <<fetches_started, tblocked, admVars, fetchVars>>

\* _get_driver, line 219: queue.Empty after timeout_seconds on an empty queue.
GetDriverTimeout(t) ==
    /\ tpc[t] = "get"
    /\ _driver_pools[tkey[t]] = <<>>
    /\ tpc' = [tpc EXCEPT ![t] = "emerg"]
    /\ tblocked' = [tblocked EXCEPT ![t] = @ + acquire_timeout]
    /\ UNCHANGED <<_driver_pools, _pool_sizes, _pool_usage, _pool_initialized,
                   _pool_lock, _scaling_lock, drivers, tkey, tdriver>>
    /\ UNCHANGED <<fetches_started, admVars, fetchVars>>

\* _try_emergency_scale, line 301 with <= for <
CanEmergencyScaleAtCeiling(key) == _pool_sizes[key] <= selenium_max_pool_size

\* _try_emergency_scale, line 301: current_size < settings.selenium_max_pool_size
CanEmergencyScale(key) == _pool_sizes[key] < selenium_max_pool_size

\* _try_emergency_scale: with _scaling_lock, read the size and decide; at the
\* ceiling it returns False and _get_driver raises TimeoutException (line 227).
TryEmergencyScaleCheck(t) ==
    /\ tpc[t] = "emerg"
    /\ ScalingLockFree
    /\ IF CanEmergencyScale(tkey[t])
       THEN /\ _scaling_lock' = t
            /\ tpc' = [tpc EXCEPT ![t] = "emerg_cs"]
       ELSE /\ UNCHANGED _scaling_lock
            /\ tpc' = [tpc EXCEPT ![t] = "idle"]
    /\ UNCHANGED <<_driver_pools, _pool_sizes, _pool_usage, _pool_initialized,
                   _pool_lock, drivers, tkey, tdriver>>
    /\ UNCHANGED <<fetches_started, tblocked, admVars, fetchVars>>

\* _try_emergency_scale, lines 302-311: create, put, _pool_sizes += 1, return
\* True; a failing _create_driver returns False and _get_driver raises.
TryEmergencyScaleAdd(t) ==
    /\ tpc[t] = "emerg_cs"
    /\ LET key == tkey[t] IN
       \/ /\ FreeIds # {}
          /\ LET d == MinOf(FreeIds) IN
             /\ drivers' = Created(drivers, <<d>>, key)
             /\ _driver_pools' = [_driver_pools EXCEPT ![key] = QueuePut(@, d)]
          /\ _pool_sizes' = [_pool_sizes EXCEPT ![key] = @ + 1]
          /\ tpc' = [tpc EXCEPT ![t] = "retry"]
       \/ /\ UNCHANGED <<drivers, _driver_pools, _pool_sizes>>
          /\ tpc' = [tpc EXCEPT ![t] = "idle"]
    /\ _scaling_lock' = NoThread
    /\ UNCHANGED <<_pool_usage, _pool_initialized, _pool_lock, tkey, tdriver>>
    /\ UNCHANGED <<fetches_started, tblocked, admVars, fetchVars>>

\* _get_driver, lines 225-227: the retry get(timeout=5) raises queue.Empty and
\* TimeoutException leaves _get_driver.
GetDriverRetryTimeout(t) ==
    /\ tpc[t] = "retry"
    /\ _driver_pools[tkey[t]] = <<>>
    /\ tpc' = [tpc EXCEPT ![t] = "idle"]
    /\ tblocked' = [tblocked EXCEPT ![t] = @ + retry_timeout]
    /\ UNCHANGED <<_driver_pools, _pool_sizes, _pool_usage, _pool_initialized,
                   _pool_lock, _scaling_lock, drivers, tkey, tdriver>>
    /\ UNCHANGED <<fetches_started, admVars, fetchVars>>

\* _return_driver, lines 232-237, called from the finally of _sync_fetch:
\* key = driver._strategy_key; with _scaling_lock: usage = max(0, usage - 1)
ReturnDriverCount(t) ==
    /\ tpc[t] = "have"
    /\ ScalingLockFree
    /\ LET key == drivers[tdriver[t]].key IN
       /\ tkey' = [tkey EXCEPT ![t] = key]
       /\ _pool_usage' = [_pool_usage EXCEPT ![key] = Max(0, @ - 1)]
    /\ tpc' = [tpc EXCEPT ![t] = "health"]
    /\ UNCHANGED <<_driver_pools, _pool_sizes, _pool_initialized, _pool_lock,
                   _scaling_lock, drivers, tdriver>>
    /\ UNCHANGED <<fetches_started, tblocked, admVars, fetchVars>>

\* _return_driver, lines 240-255 and 260-263: the health check.  A healthy
\* driver is put back; a broken one is quit and replaced by a new driver; when
\* the replacement cannot be created the broken driver is put in the 'normal' pool.
ReturnDriverPut(t) ==
    /\ tpc[t] = "health"
    /\ LET key == tkey[t]
           d == tdriver[t] IN
       \/ /\ drivers[d].st = "ok"
          /\ _driver_pools' = [_driver_pools EXCEPT ![key] = QueuePut(@, d)]
          /\ tpc' = [tpc EXCEPT ![t] = "down"]
          /\ UNCHANGED <<drivers, tdriver>>
       \/ /\ LET r == MinOf(FreeIds \cup {d}) IN
             /\ drivers' = Created(Dropped(drivers, d), <<r>>, key)
             /\ _driver_pools' = [_driver_pools EXCEPT ![key] = QueuePut(@, r)]
          /\ tpc' = [tpc EXCEPT ![t] = "idle"]
          /\ tdriver' = [tdriver EXCEPT ![t] = NoDriver]
       \/ /\ drivers' = [drivers EXCEPT ![d].st = "dead"]
          /\ _driver_pools' = [_driver_pools EXCEPT !["normal"] = QueuePut(@, d)]
          /\ tpc' = [tpc EXCEPT ![t] = "idle"]
          /\ tdriver' = [tdriver EXCEPT ![t] = NoDriver]
    /\ UNCHANGED <<_pool_sizes, _pool_usage, _pool_initialized, _pool_lock,
                   _scaling_lock, tkey>>
    /\ UNCHANGED <<fetches_started, tblocked, admVars, fetchVars>>

\* _maybe_scale_down, lines 323-325: the scale-down condition.  The code
\* compares with the floats current_size * 0.7 and current_size * 0.3; for the
\* sizes below 10 the comparison in tenths decides the same.
ShouldScaleDown(key) ==
    /\ _pool_sizes[key] > selenium_pool_size
    /\ Len(_driver_pools[key]) * 10 > _pool_sizes[key] * scale_down_idle_tenths
    /\ _pool_usage[key] * 10 < _pool_sizes[key] * scale_down_usage_tenths

\* _maybe_scale_down: with _scaling_lock, read the counters and decide.
MaybeScaleDownCheck(t) ==
    /\ tpc[t] = "down"
    /\ ScalingLockFree
    /\ IF ShouldScaleDown(tkey[t])
       THEN /\ _scaling_lock' = t
            /\ tpc' = [tpc EXCEPT ![t] = "down_cs"]
            /\ UNCHANGED tdriver
       ELSE /\ UNCHANGED _scaling_lock
            /\ tpc' = [tpc EXCEPT ![t] = "idle"]
            /\ tdriver' = [tdriver EXCEPT ![t] = NoDriver]
    /\ UNCHANGED <<_driver_pools, _pool_sizes, _pool_usage, _pool_initialized,
                   _pool_lock, drivers, tkey>>
    /\ UNCHANGED <<fetches_started, tblocked, admVars, fetchVars>>

\* Mutant: _maybe_scale_down catches queue.Empty only, so a failing quit reaches
\* the handler of _return_driver, which puts the returned driver in 'normal' again.
MaybeScaleDownRemoveEscapes(t) ==
    /\ tpc[t] = "down_cs"
    /\ LET key == tkey[t] IN
       IF _driver_pools[key] = <<>>
       THEN UNCHANGED <<_driver_pools, drivers, _pool_sizes>>
       ELSE \/ /\ _driver_pools' = [_driver_pools EXCEPT ![key] = QueueRest(@)]
               /\ drivers' = Dropped(drivers, QueueHead(_driver_pools[key]))
               /\ _pool_sizes' = [_pool_sizes EXCEPT ![key] = @ - 1]
            \/ /\ _driver_pools' =
                    [[_driver_pools EXCEPT ![key] = QueueRest(@)]
                        EXCEPT !["normal"] = QueuePut(@, tdriver[t])]
               /\ UNCHANGED <<drivers, _pool_sizes>>
    /\ _scaling_lock' = NoThread
    /\ tpc' = [tpc EXCEPT ![t] = "idle"]
    /\ tdriver' = [tdriver EXCEPT ![t] = NoDriver]
    /\ UNCHANGED <<_pool_usage, _pool_initialized, _pool_lock, tkey>>
    /\ UNCHANGED <<fetches_started, tblocked, admVars, fetchVars>>

\* _maybe_scale_down, lines 327-334: get_nowait, quit, _pool_sizes -= 1; an empty
\* queue or a failing quit is caught and leaves _pool_sizes as it is.
MaybeScaleDownRemove(t) ==
    /\ tpc[t] = "down_cs"
    /\ LET key == tkey[t] IN
       IF _driver_pools[key] = <<>>
       THEN UNCHANGED <<_driver_pools, drivers, _pool_sizes>>
       ELSE /\ _driver_pools' = [_driver_pools EXCEPT ![key] = QueueRest(@)]
            /\ drivers' = Dropped(drivers, QueueHead(_driver_pools[key]))
            /\ \/ _pool_sizes' = [_pool_sizes EXCEPT ![key] = @ - 1]
               \/ UNCHANGED _pool_sizes
    /\ _scaling_lock' = NoThread
    /\ tpc' = [tpc EXCEPT ![t] = "idle"]
    /\ tdriver' = [tdriver EXCEPT ![t] = NoDriver]
    /\ UNCHANGED <<_pool_usage, _pool_initialized, _pool_lock, tkey>>
    /\ UNCHANGED <<fetches_started, tblocked, admVars, fetchVars>>

(***************************************************************************)
(* Admission controller: app/main.py, SmartCapacityMiddleware.dispatch     *)
(***************************************************************************)
\* _max_concurrent = settings.selenium_max_pool_size
_max_concurrent == selenium_max_pool_size

RequestLockFree == ~_request_lock

InitAdm ==
    /\ _concurrent_requests = 0
    /\ _waiting_count = 0
    /\ _request_semaphore = _max_concurrent
    /\ _request_lock = FALSE
    /\ rpc = [r \in Requests |-> "new"]
    /\ acquired = [r \in Requests |-> FALSE]
    /\ queued = [r \in Requests |-> FALSE]
    /\ status_code = [r \in Requests |-> 0]
    /\ decrements = [r \in Requests |-> 0]
    /\ releases = [r \in Requests |-> 0]

\* Mutant: the waiting room is compared with > instead of >=.
ArriveOffByOne(r) ==
    /\ rpc[r] = "new"
    /\ RequestLockFree
    /\ LET can_enter_now == _concurrent_requests < _max_concurrent IN
       IF ~can_enter_now /\ _waiting_count > max_queue_size
       THEN /\ status_code' = [status_code EXCEPT ![r] = 503]
            /\ rpc' = [rpc EXCEPT ![r] = "done"]
            /\ UNCHANGED <<_waiting_count, queued>>
       ELSE /\ IF ~can_enter_now
               THEN /\ _waiting_count' = _waiting_count + 1
                    /\ queued' = [queued EXCEPT ![r] = TRUE]
               ELSE UNCHANGED <<_waiting_count, queued>>
            /\ rpc' = [rpc EXCEPT ![r] = "wait"]
            /\ UNCHANGED status_code
    /\ UNCHANGED <<_concurrent_requests, _request_semaphore, _request_lock,
                   acquired, decrements, releases>>
    /\ UNCHANGED <<poolVars, fetchVars>>

\* dispatch, lines 47-60: the arrival block under _request_lock.  Nothing awaits
\* inside it, so the lock is taken and released within the step.
Arrive(r) ==
    /\ rpc[r] = "new"
    /\ RequestLockFree
    /\ LET can_enter_now == _concurrent_requests < _max_concurrent IN
       IF ~can_enter_now /\ _waiting_count >= max_queue_size
       THEN /\ status_code' = [status_code EXCEPT ![r] = 503]
            /\ rpc' = [rpc EXCEPT ![r] = "done"]
            /\ UNCHANGED <<_waiting_count, queued>>
       ELSE /\ IF ~can_enter_now
               THEN /\ _waiting_count' = _waiting_count + 1
                    /\ queued' = [queued EXCEPT ![r] = TRUE]
               ELSE UNCHANGED <<_waiting_count, queued>>
            /\ rpc' = [rpc EXCEPT ![r] = "wait"]
            /\ UNCHANGED status_code
    /\ UNCHANGED <<_concurrent_requests, _request_semaphore, _request_lock,
                   acquired, decrements, releases>>
    /\ UNCHANGED <<poolVars, fetchVars>>

\* dispatch, lines 64-65: _request_semaphore.acquire() returns; acquired = True
SemaphoreAcquire(r) ==
    /\ rpc[r] = "wait"
    /\ _request_semaphore > 0
    /\ _request_semaphore' = _request_semaphore - 1
    /\ acquired' = [acquired EXCEPT ![r] = TRUE]
    /\ rpc' = [rpc EXCEPT ![r] = "got"]
    /\ UNCHANGED <<_concurrent_requests, _waiting_count, _request_lock, queued,
                   status_code, decrements, releases>>
    /\ UNCHANGED <<poolVars, fetchVars>>

\* Mutant: the TimeoutError is swallowed and dispatch goes on without a permit.
QueueTimeoutSwallowed(r) ==
    /\ rpc[r] = "wait"
    /\ _request_semaphore = 0
    /\ rpc' = [rpc EXCEPT ![r] = "got"]
    /\ UNCHANGED <<_concurrent_requests, _waiting_count, _request_semaphore,
                   _request_lock, acquired, queued, status_code, decrements, releases>>
    /\ UNCHANGED <<poolVars, fetchVars>>

\* dispatch, lines 66-69 and 89-91: asyncio.wait_for times out after
\* queue_timeout_seconds without a permit; 504 is returned; the outer finally
\* finds acquired False.
QueueTimeout(r) ==
    /\ rpc[r] = "wait"
    /\ _request_semaphore = 0
    /\ status_code' = [status_code EXCEPT ![r] = 504]
    /\ rpc' = [rpc EXCEPT ![r] = "done"]
    /\ UNCHANGED <<_concurrent_requests, _waiting_count, _request_semaphore,
                   _request_lock, acquired, queued, decrements, releases>>
    /\ UNCHANGED <<poolVars, fetchVars>>

\* Mutant: _waiting_count is decremented without the test _waiting_count > 0.
UpdateCountersUnguarded(r) ==
    /\ rpc[r] = "got"
    /\ RequestLockFree
    /\ _waiting_count' = _waiting_count - 1
    /\ _concurrent_requests' = _concurrent_requests + 1
    /\ rpc' = [rpc EXCEPT ![r] = "run"]
    /\ UNCHANGED <<_request_semaphore, _request_lock, acquired, queued,
                   status_code, decrements, releases>>
    /\ UNCHANGED <<poolVars, fetchVars>>

\* dispatch, lines 72-75: the counters are updated under _request_lock
UpdateCounters(r) ==
    /\ rpc[r] = "got"
    /\ RequestLockFree
    /\ _waiting_count' = IF _waiting_count > 0 THEN _waiting_count - 1 ELSE _waiting_count
    /\ _concurrent_requests' = _concurrent_requests + 1
    /\ rpc' = [rpc EXCEPT ![r] = "run"]
    /\ UNCHANGED <<_request_semaphore, _request_lock, acquired, queued,
                   status_code, decrements, releases>>
    /\ UNCHANGED <<poolVars, fetchVars>>

\* Mutant: the semaphore is released after a normal return only, not in a finally.
CallNextNoFinally(r) ==
    /\ rpc[r] = "run"
    /\ RequestLockFree
    /\ \E raised \in BOOLEAN :
        /\ status_code' = [status_code EXCEPT ![r] = IF raised THEN 502 ELSE 200]
        /\ IF acquired[r] /\ ~raised
           THEN /\ _request_semaphore' = _request_semaphore + 1
                /\ releases' = [releases EXCEPT ![r] = @ + 1]
           ELSE UNCHANGED <<_request_semaphore, releases>>
    /\ _concurrent_requests' = _concurrent_requests - 1
    /\ decrements' = [decrements EXCEPT ![r] = @ + 1]
    /\ rpc' = [rpc EXCEPT ![r] = "done"]
    /\ UNCHANGED <<_waiting_count, _request_lock, acquired, queued>>
    /\ UNCHANGED <<poolVars, fetchVars>>

\* Mutant: no except clause: a raising handler leaves dispatch without a response.
CallNextUnhandled(r) ==
    /\ rpc[r] = "run"
    /\ RequestLockFree
    /\ \E raised \in BOOLEAN :
        status_code' = [status_code EXCEPT ![r] = IF raised THEN 0 ELSE 200]
    /\ _concurrent_requests' = _concurrent_requests - 1
    /\ decrements' = [decrements EXCEPT ![r] = @ + 1]
    /\ IF acquired[r]
       THEN /\ _request_semaphore' = _request_semaphore + 1
            /\ releases' = [releases EXCEPT ![r] = @ + 1]
       ELSE UNCHANGED <<_request_semaphore, releases>>
    /\ rpc' = [rpc EXCEPT ![r] = "done"]
    /\ UNCHANGED <<_waiting_count, _request_lock, acquired, queued>>
    /\ UNCHANGED <<poolVars, fetchVars>>

\* dispatch, lines 78-91: call_next returns a response or raises (502); the inner
\* finally decrements _concurrent_requests under the lock, the outer finally
\* releases the semaphore if acquired.
CallNext(r) ==
    /\ rpc[r] = "run"
    /\ RequestLockFree
    /\ \E raised \in BOOLEAN :
        status_code' = [status_code EXCEPT ![r] = IF raised THEN 502 ELSE 200]
    /\ _concurrent_requests' = _concurrent_requests - 1
    /\ decrements' = [decrements EXCEPT ![r] = @ + 1]
    /\ IF acquired[r]
       THEN /\ _request_semaphore' = _request_semaphore + 1
            /\ releases' = [releases EXCEPT ![r] = @ + 1]
       ELSE UNCHANGED <<_request_semaphore, releases>>
    /\ rpc' = [rpc EXCEPT ![r] = "done"]
    /\ UNCHANGED <<_waiting_count, _request_lock, acquired, queued>>
    /\ UNCHANGED <<poolVars, fetchVars>>

(***************************************************************************)
(* Time budget: class TimeBudget of app/js_fetcher.py.  Times are counted  *)
(* in ticks of the monotonic clock; the code's floats are only compared,   *)
(* added and subtracted.                                                   *)
(***************************************************************************)
Min(a, b) == IF a <= b THEN a ELSE b

\* the arguments a caller may pass: negative, zero and positive
Durations == (0 - 1)..MaxSeconds

\* TimeBudget.left with the clamp at 0.0 left out
TimeBudget_left_unclamped(dl, now) == dl - now

\* TimeBudget.left, line 696-697
TimeBudget_left(dl, now) == Max(0, dl - now)

\* TimeBudget.ok, line 699-700
TimeBudget_ok(dl, now) == TimeBudget_left(dl, now) > 0

\* TimeBudget.slice, lines 701-709
TimeBudget_slice(desired, floor, dl, now) ==
    LET remaining == TimeBudget_left(dl, now)
    IN  IF remaining <= 0
        THEN 0
        ELSE Max(IF desired <= 0 THEN 0 ELSE Min(desired, remaining),
                 IF floor <= 0 THEN 0 ELSE Min(floor, remaining))

NoCall == [op |-> "none", desired |-> 0, floor |-> 0, remaining |-> 0, result |-> 0]

\* a budget of 0 seconds created at time 0
InitBudget ==
    /\ monotonic = 0
    /\ deadline = 0
    /\ budget_call = NoCall

\* TimeBudget.__init__, line 693-694
TimeBudgetNew(seconds) ==
    /\ deadline' = monotonic + Max(0, seconds)
    /\ budget_call' = NoCall
    /\ UNCHANGED monotonic
    /\ UNCHANGED <<poolVars, admVars, httpVars, probeVars, crawlVars, renderVars>>

\* time.monotonic() advances between two calls
ClockTick ==
    /\ monotonic < MaxClock
    /\ monotonic' = monotonic + 1
    /\ UNCHANGED <<deadline, budget_call>>
    /\ UNCHANGED <<poolVars, admVars, httpVars, probeVars, crawlVars, renderVars>>

\* a call of left()
BudgetLeft ==
    /\ budget_call' = [op |-> "left", desired |-> 0, floor |-> 0,
                       remaining |-> TimeBudget_left(deadline, monotonic),
                       result |-> TimeBudget_left(deadline, monotonic)]
    /\ UNCHANGED <<deadline, monotonic>>
    /\ UNCHANGED <<poolVars, admVars, httpVars, probeVars, crawlVars, renderVars>>

\* a call of slice(desired, floor)
BudgetSlice(desired, floor) ==
    /\ budget_call' = [op |-> "slice", desired |-> desired, floor |-> floor,
                       remaining |-> TimeBudget_left(deadline, monotonic),
                       result |-> TimeBudget_slice(desired, floor, deadline, monotonic)]
    /\ UNCHANGED <<deadline, monotonic>>
    /\ UNCHANGED <<poolVars, admVars, httpVars, probeVars, crawlVars, renderVars>>

(***************************************************************************)
(* Direct transfer fetcher: fetch_with_httpx of app/http_fetcher.py.  The  *)
(* body of the response is the byte sequence 1, 2, ..., L, which the       *)
(* server delivers in chunks of any sizes.                                 *)
(***************************************************************************)
Body(L) == [i \in 1..L |-> i]

NoResult == [status |-> 0, bytes |-> <<>>]

\* status codes a server answers with; none of them raises in fetch_with_httpx
StatusCodes == {200, 404}

\* bytes(buf[:max_bytes]), line 78
Truncate(buf, cap) == SubSeq(buf, 1, Min(Len(buf), cap))

InitHttp ==
    /\ http_pc = "idle"
    /\ http_body = 0
    /\ http_max_bytes = 1
    /\ http_retries = 0
    /\ http_attempt = 0
    /\ http_status = 0
    /\ http_pos = 0
    /\ http_buf = <<>>
    /\ http_result = NoResult
    /\ http_excs = <<>>
    /\ http_sleeps = <<>>
    /\ http_raised = "none"

\* lines 62-71: the call, the first `client.stream("GET", url)` and `buf = bytearray()`
HttpCall(L, cap, retries, status) ==
    /\ http_pc' = "stream"
    /\ http_body' = L
    /\ http_max_bytes' = cap
    /\ http_retries' = retries
    /\ http_attempt' = 0
    /\ http_status' = status
    /\ http_pos' = 0
    /\ http_buf' = <<>>
    /\ http_result' = NoResult
    /\ http_excs' = <<>>
    /\ http_sleeps' = <<>>
    /\ http_raised' = "none"

\* a caller other than crawl
HttpStart(L, cap, retries, status) ==
    /\ http_pc \in {"idle", "returned", "raised"}
    /\ HttpCall(L, cap, retries, status)
    /\ UNCHANGED <<poolVars, admVars, budgetVars, probeVars, crawlVars, renderVars>>

\* lines 72-77: one round of `async for chunk in resp.aiter_bytes()`; n = 0 is
\* an empty chunk, which `if chunk:` skips
HttpChunk(n) ==
    /\ http_pc = "stream"
    /\ http_pos < http_body
    /\ n <= http_body - http_pos
    /\ http_pos' = http_pos + n
    /\ http_buf' = IF n > 0
                   THEN http_buf \o SubSeq(Body(http_body), http_pos + 1, http_pos + n)
                   ELSE http_buf
    /\ http_pc' = IF n > 0 /\ Len(http_buf') > http_max_bytes THEN "break" ELSE "stream"
    /\ UNCHANGED <<http_body, http_max_bytes, http_retries, http_attempt,
                   http_status, http_result, http_excs, http_sleeps, http_raised>>
    /\ UNCHANGED <<poolVars, admVars, budgetVars, probeVars, crawlVars, renderVars>>

\* line 78 with `bytes(buf)` for `bytes(buf[:max_bytes])`
HttpReturnUncut ==
    /\ \/ http_pc = "break"
       \/ http_pc = "stream" /\ http_pos = http_body
    /\ http_pc' = "returned"
    /\ http_result' = [status |-> http_status, bytes |-> http_buf]
    /\ UNCHANGED <<http_body, http_max_bytes, http_retries, http_attempt,
                   http_status, http_pos, http_buf, http_excs, http_sleeps, http_raised>>
    /\ UNCHANGED <<poolVars, admVars, budgetVars, probeVars, crawlVars, renderVars>>

\* line 78: after the break, or after the last chunk
HttpReturn ==
    /\ \/ http_pc = "break"
       \/ http_pc = "stream" /\ http_pos = http_body
    /\ http_pc' = "returned"
    /\ http_result' = [status |-> http_status, bytes |-> Truncate(http_buf, http_max_bytes)]
    /\ UNCHANGED <<http_body, http_max_bytes, http_retries, http_attempt,
                   http_status, http_pos, http_buf, http_excs, http_sleeps, http_raised>>
    /\ UNCHANGED <<poolVars, admVars, budgetVars, probeVars, crawlVars, renderVars>>

\* the exceptions a transfer raises: a connection error or a timeout
HttpExcKinds == {"connect", "timeout"}

\* line 82 without the cap
http_backoff_uncapped(attempt) == 2 ^ attempt

\* line 82: min(2 ** attempt, 5)
http_backoff(attempt) == Min(2 ^ attempt, 5)

\* lines 79-86: the connection or the stream raises: `last_exc = e`, the
\* sleep of line 82, then the next attempt opens a new stream with an empty
\* buffer; after the last attempt `raise last_exc`
HttpError(kind) ==
    /\ http_pc = "stream"
    /\ http_excs' = Append(http_excs, kind)
    /\ http_sleeps' = Append(http_sleeps, http_backoff(http_attempt))
    /\ IF http_attempt + 1 < http_retries + 1
       THEN /\ http_attempt' = http_attempt + 1
            /\ http_pos' = 0
            /\ http_buf' = <<>>
            /\ UNCHANGED <<http_pc, http_raised>>
       ELSE /\ http_pc' = "raised"
            /\ http_raised' = kind
            /\ UNCHANGED <<http_attempt, http_pos, http_buf>>
    /\ UNCHANGED <<http_body, http_max_bytes, http_retries, http_status, http_result>>
    /\ UNCHANGED <<poolVars, admVars, budgetVars, probeVars, crawlVars, renderVars>>

(***************************************************************************)
(* Preflight classifier: preflight of app/preflight.py.  A page is what    *)
(* the server answers to the probe: its status, the kind of its content    *)
(* type, the length of its body and the signals the classifier reads off   *)
(* the markup.                                                             *)
(***************************************************************************)
\* lengths of the visible text around the classifier's thresholds 500, 700, 800
TextLens == {300, 499, 500, 699, 700, 799, 800, 2000}

\* lines 45 and 57: PDF by content type or URL suffix, feed by content type
PageKinds == {"html", "pdf", "rss"}

Pages ==
    [status : StatusCodes, kind : PageKinds, nbytes : 0..MaxBody, text_len : TextLens,
     has_main : BOOLEAN, spa_mark : BOOLEAN, js_required : BOOLEAN, consent : BOOLEAN,
     bot_wall : BOOLEAN, rss_link : BOOLEAN, youtube : BOOLEAN]

\* lines 84-96 with the feed link looked at before the bot wall and the video
\* domain
SelectStrategyFeedFirst(p) ==
    IF p.rss_link THEN "RSS"
    ELSE IF p.bot_wall THEN "BLOCKED"
    ELSE IF p.youtube THEN "YOUTUBE"
    ELSE IF p.text_len >= 800 /\ (p.has_main \/ ~p.spa_mark) /\ ~p.js_required /\ ~p.consent
         THEN "HTTP_ONLY"
    ELSE IF p.spa_mark \/ (p.has_main /\ p.text_len < 500) \/ p.js_required \/ p.consent
         THEN IF p.consent THEN "JS_LIGHT_CONSENT" ELSE "JS_LIGHT"
    ELSE "HTTP_THEN_JS"

\* lines 84-96: strategy selection
SelectStrategy(p) ==
    IF p.bot_wall THEN "BLOCKED"
    ELSE IF p.youtube THEN "YOUTUBE"
    ELSE IF p.rss_link THEN "RSS"
    ELSE IF p.text_len >= 800 /\ (p.has_main \/ ~p.spa_mark) /\ ~p.js_required /\ ~p.consent
         THEN "HTTP_ONLY"
    ELSE IF p.spa_mark \/ (p.has_main /\ p.text_len < 500) \/ p.js_required \/ p.consent
         THEN IF p.consent THEN "JS_LIGHT_CONSENT" ELSE "JS_LIGHT"
    ELSE "HTTP_THEN_JS"

\* lines 40-115: the dict preflight returns; content_bytes is r.content, whole
preflight(p) ==
    IF p.kind = "pdf"
    THEN [status |-> p.status, content_bytes |-> p.nbytes, html_text |-> FALSE,
          text_len |-> 0, strategy |-> "PDF"]
    ELSE IF p.kind = "rss"
    THEN [status |-> p.status, content_bytes |-> p.nbytes, html_text |-> FALSE,
          text_len |-> 0, strategy |-> "RSS"]
    ELSE [status |-> p.status, content_bytes |-> p.nbytes, html_text |-> TRUE,
          text_len |-> p.text_len, strategy |-> SelectStrategy(p)]

\* app/main.py, lines 332-347: what crawl does with a probe result: hand
\* out the probe's own status and bytes, or render
AutoRoute(res) ==
    IF res.strategy \in {"PDF", "RSS", "HTTP_ONLY", "YOUTUBE"}
    THEN [path |-> "probe", status |-> res.status, nbytes |-> res.content_bytes]
    ELSE IF res.strategy = "HTTP_THEN_JS" /\ res.text_len >= 700
    THEN [path |-> "probe", status |-> res.status, nbytes |-> res.content_bytes]
    ELSE [path |-> "render", status |-> 0, nbytes |-> 0]

NoPage ==
    [status |-> 0, kind |-> "none", nbytes |-> 0, text_len |-> 0,
     has_main |-> FALSE, spa_mark |-> FALSE, js_required |-> FALSE, consent |-> FALSE,
     bot_wall |-> FALSE, rss_link |-> FALSE, youtube |-> FALSE]

NoProbe ==
    [status |-> 0, content_bytes |-> 0, html_text |-> FALSE, text_len |-> 0,
     strategy |-> "none"]

\* the pages a probe can meet: preflight sends one request
ProbePages == IF probe_pc = "idle" THEN Pages ELSE {}

InitProbe ==
    /\ probe_pc = "idle"
    /\ probe_page = NoPage
    /\ probe_max_bytes = 1
    /\ pf = NoProbe

\* preflight(url, timeout_seconds, user_agent), lines 29-115: the probe of
\* page p, made for a request with the byte cap `cap`
PreflightCall(p, cap) ==
    /\ probe_pc = "idle"
    /\ probe_pc' = "returned"
    /\ probe_page' = p
    /\ probe_max_bytes' = cap
    /\ pf' = preflight(p)
    /\ UNCHANGED <<poolVars, admVars, budgetVars, httpVars, crawlVars, renderVars>>

\* lines 32-38: client.get raises (connection error, timeout)
PreflightRaise(cap) ==
    /\ probe_pc = "idle"
    /\ probe_pc' = "raised"
    /\ probe_page' = NoPage
    /\ probe_max_bytes' = cap
    /\ pf' = NoProbe
    /\ UNCHANGED <<poolVars, admVars, budgetVars, httpVars, crawlVars, renderVars>>

(***************************************************************************)
(* The fetch operation: crawl of app/main.py, lines 305-400, for one       *)
(* accepted request.                                                       *)
(***************************************************************************)
NoOutcome == [kind |-> "none", status |-> 0, nbytes |-> 0]

\* a page of which only the status and the body length matter
PlainPage(status, L) == [NoPage EXCEPT !.kind = "html", !.status = status, !.nbytes = L]

\* the pages behind the URL of a request
CrawlPages == IF crawl_pc = "idle" THEN Pages ELSE {}

InitCrawl ==
    /\ crawl_pc = "idle"
    /\ crawl_mode = "none"
    /\ crawl_max_bytes = 1
    /\ crawl_page = NoPage
    /\ crawl_outcome = NoOutcome
    /\ renderer_calls = 0

\* lines 314-323: mode "fast" calls fetch_with_httpx
CrawlFast(status, L, cap, retries) ==
    /\ crawl_pc = "idle"
    /\ crawl_pc' = "fast"
    /\ crawl_mode' = "fast"
    /\ crawl_max_bytes' = cap
    /\ crawl_page' = PlainPage(status, L)
    /\ HttpCall(L, cap, retries, status)
    /\ UNCHANGED <<crawl_outcome, renderer_calls>>
    /\ UNCHANGED <<poolVars, admVars, budgetVars, probeVars, renderVars>>

\* lines 315-323: fetch_with_httpx returned (status, final_url, data, ctype)
CrawlFastReturn ==
    /\ crawl_pc = "fast"
    /\ http_pc = "returned"
    /\ crawl_pc' = "done"
    /\ crawl_outcome' = [kind |-> "ok", status |-> http_result.status,
                         nbytes |-> Len(http_result.bytes)]
    /\ UNCHANGED <<crawl_mode, crawl_max_bytes, crawl_page, renderer_calls>>
    /\ UNCHANGED <<poolVars, admVars, budgetVars, probeVars, httpVars, renderVars>>

\* lines 388-400: fetch_with_httpx raised; HTTPException 504 for a timeout,
\* 502 otherwise
CrawlFastRaise(code) ==
    /\ crawl_pc = "fast"
    /\ http_pc = "raised"
    /\ crawl_pc' = "done"
    /\ crawl_outcome' = [kind |-> "error", status |-> code, nbytes |-> 0]
    /\ UNCHANGED <<crawl_mode, crawl_max_bytes, crawl_page, renderer_calls>>
    /\ UNCHANGED <<poolVars, admVars, budgetVars, probeVars, httpVars, renderVars>>

\* lines 324-331 and 388-400: mode "auto" calls
\* preflight_analyze(url, timeout_seconds=, user_agent=, allow_insecure_ssl=),
\* and preflight (app/preflight.py, lines 13-17) has no parameter
\* allow_insecure_ssl: the call raises TypeError before any probe is sent, the
\* handler of line 388 turns it into HTTPException 502.  Lines 332-367 are
\* never reached.
CrawlAuto(p, cap) ==
    /\ crawl_pc = "idle"
    /\ crawl_pc' = "done"
    /\ crawl_mode' = "auto"
    /\ crawl_max_bytes' = cap
    /\ crawl_page' = p
    /\ crawl_outcome' = [kind |-> "error", status |-> 502, nbytes |-> 0]
    /\ UNCHANGED renderer_calls
    /\ UNCHANGED <<poolVars, admVars, budgetVars, probeVars, httpVars, renderVars>>

(***************************************************************************)
(* Budgeted render executor: _selenium_fetch._sync_fetch of                *)
(* app/js_fetcher.py, lines 724-951, for one fetch.  The pool behind       *)
(* _get_driver and _return_driver is the one modelled above; here a call   *)
(* of _get_driver either hands out a worker or raises.  Time is counted in *)
(* seconds of the monotonic clock; a step that waits lets any part of the  *)
(* remaining budget elapse.                                                *)
(***************************************************************************)
NoPending == [kind |-> "none", status |-> 0, nbytes |-> 0]

\* the exceptions an attempt raises: the renderer timeout that lines 900-901
\* look for in the message, or anything else
ExcKinds == {"renderer_timeout", "other"}

\* budget.left() of the fetch's TimeBudget
FetchLeft == TimeBudget_left(deadline, monotonic)

\* line 745 without the cap of the speed profile
max_attempts_uncapped(js_strategy, retries) == retries + 1

\* line 745
max_attempts(js_strategy, retries) ==
    IF js_strategy = "speed" THEN Min(retries, 1) + 1 ELSE retries + 1

\* line 918
backoff(attempt) == Min(2 ^ attempt, 5)

\* content.encode("utf-8")[:max_bytes], lines 631, 813, 825, 869, 887
Capped(n, cap) == Min(n, cap)

InitRender ==
    /\ f_pc = "idle"
    /\ f_strategy = "speed"
    /\ f_retries = 0
    /\ f_timeout = 1
    /\ f_start = 0
    /\ f_ready_wait = 0
    /\ f_error_page = FALSE
    /\ f_probes = 0
    /\ f_max_bytes = 1
    /\ f_content = 0
    /\ f_attempt = 0
    /\ f_exc = "none"
    /\ f_last_exc = "none"
    /\ did_early_accuracy = FALSE
    /\ f_first = [exc |-> "none", left |-> 0]
    /\ f_escalations = 0
    /\ f_driver = "none"
    /\ f_acquires = 0
    /\ f_returns = 0
    /\ f_pending = NoPending
    /\ f_result = NoPending

\* lines 712-725: the call; `driver = None`
RenderCall(js_strategy, retries, timeout, L, cap) ==
    /\ f_pc' = "acquire"
    /\ f_strategy' = js_strategy
    /\ f_retries' = retries
    /\ f_timeout' = timeout
    /\ f_start' = monotonic
    /\ f_ready_wait' = 0
    /\ f_error_page' = FALSE
    /\ f_probes' = 0
    /\ f_max_bytes' = cap
    /\ f_content' = L
    /\ f_attempt' = 0
    /\ f_exc' = "none"
    /\ f_last_exc' = "none"
    /\ did_early_accuracy' = FALSE
    /\ f_first' = [exc |-> "none", left |-> 0]
    /\ f_escalations' = 0
    /\ f_driver' = "none"
    /\ f_acquires' = 0
    /\ f_returns' = 0
    /\ f_pending' = NoPending
    /\ f_result' = NoPending

\* a caller other than crawl
RenderStart(js_strategy, retries, timeout, L, cap) ==
    /\ f_pc = "idle"
    /\ RenderCall(js_strategy, retries, timeout, L, cap)
    /\ UNCHANGED <<poolVars, admVars, budgetVars, httpVars, probeVars, crawlVars>>

\* line 728: the timeout _get_driver is called with
AcquireWait == Min(f_timeout, acquire_cap)

\* lines 726-728: _get_driver hands out a worker, after blocking on the idle
\* queue for dt seconds
FetchAcquire(dt) ==
    /\ f_pc = "acquire"
    /\ dt \in {0, AcquireWait}
    /\ monotonic' = monotonic + dt
    /\ f_pc' = "setup"
    /\ f_driver' = "held"
    /\ f_acquires' = f_acquires + 1
    /\ UNCHANGED <<deadline, budget_call>>
    /\ UNCHANGED <<f_strategy, f_retries, f_timeout, f_start, f_ready_wait, f_error_page, f_probes, f_max_bytes, f_content, f_attempt,
                   f_exc, f_last_exc, did_early_accuracy, f_first, f_escalations,
                   f_returns, f_pending, f_result>>
    /\ UNCHANGED <<poolVars, admVars, httpVars, probeVars, crawlVars>>

\* the acquisition moved inside the try of line 732: its failure would pass
\* through `finally: _return_driver(driver)`
FetchAcquireRaiseInTry ==
    /\ f_pc = "acquire"
    /\ monotonic' = monotonic + AcquireWait
    /\ f_pc' = "release"
    /\ f_pending' = [kind |-> "raise", status |-> 0, nbytes |-> 0]
    /\ UNCHANGED <<deadline, budget_call>>
    /\ UNCHANGED <<f_strategy, f_retries, f_timeout, f_start, f_ready_wait, f_error_page, f_probes, f_max_bytes, f_content, f_attempt,
                   f_exc, f_last_exc, did_early_accuracy, f_first, f_escalations,
                   f_driver, f_acquires, f_returns, f_result>>
    /\ UNCHANGED <<poolVars, admVars, httpVars, probeVars, crawlVars>>

\* lines 726-730: _get_driver raises after its timeout; WebDriverException
\* leaves _sync_fetch before the try of line 732
FetchAcquireRaise ==
    /\ f_pc = "acquire"
    /\ monotonic' = monotonic + AcquireWait
    /\ f_pc' = "done"
    /\ f_result' = [kind |-> "raise", status |-> 0, nbytes |-> 0]
    /\ UNCHANGED <<deadline, budget_call>>
    /\ UNCHANGED <<f_strategy, f_retries, f_timeout, f_start, f_ready_wait, f_error_page, f_probes, f_max_bytes, f_content, f_attempt,
                   f_exc, f_last_exc, did_early_accuracy, f_first, f_escalations,
                   f_driver, f_acquires, f_returns, f_pending>>
    /\ UNCHANGED <<poolVars, admVars, httpVars, probeVars, crawlVars>>

\* lines 733-745: the budget and the driver's timeouts; set_page_load_timeout
\* on a dead worker raises
FetchSetup(ok) ==
    /\ f_pc = "setup"
    /\ deadline' = monotonic + Max(0, f_timeout)
    /\ budget_call' = NoCall
    /\ IF ok
       THEN /\ f_pc' = "loop"
            /\ UNCHANGED f_pending
       ELSE /\ f_pc' = "release"
            /\ f_pending' = [kind |-> "raise", status |-> 0, nbytes |-> 0]
    /\ UNCHANGED <<f_strategy, f_retries, f_timeout, f_start, f_ready_wait, f_error_page, f_probes, f_max_bytes, f_content, f_attempt,
                   f_exc, f_last_exc, did_early_accuracy, f_first, f_escalations,
                   f_driver, f_acquires, f_returns, f_result>>
    /\ UNCHANGED monotonic
    /\ UNCHANGED <<poolVars, admVars, httpVars, probeVars, crawlVars>>

\* lines 746-748: the head of `for attempt in range(max_attempts)` and the
\* budget test
FetchLoop ==
    /\ f_pc = "loop"
    /\ f_pc' = IF f_attempt < max_attempts(f_strategy, f_retries) /\ TimeBudget_ok(deadline, monotonic)
               THEN "attempt"
               ELSE "after_loop"
    /\ UNCHANGED <<f_strategy, f_retries, f_timeout, f_start, f_ready_wait, f_error_page, f_probes, f_max_bytes, f_content, f_attempt,
                   f_exc, f_last_exc, did_early_accuracy, f_first, f_escalations,
                   f_driver, f_acquires, f_returns, f_pending, f_result>>
    /\ UNCHANGED <<poolVars, admVars, budgetVars, httpVars, probeVars, crawlVars>>

\* the time a call with a timeout takes: it returns at once, after a second,
\* or when the timeout fires
Elapsed(limit) == {dt \in {0, 1, limit} : dt <= limit}

\* lines 738-739: set_page_load_timeout(max(1, int(min(nav_cap, budget.left())))),
\* called once, right after the budget was made: budget.left() is then a
\* little less than timeout_seconds, and int() rounds down
nav_timeout(timeout) == Max(1, IF timeout > nav_cap THEN nav_cap ELSE timeout - 1)

\* lines 769 and 774: the timeout of the readiness wait,
\* max(0.5, min(6.0, budget.left())) in the accuracy profile and
\* max(0.5, min(5.0, budget.left())) in the speed profile, in tenths of a second
ready_wait(js_strategy, left) ==
    Max(5, Min(IF js_strategy = "accuracy" THEN 60 ELSE 50, 10 * left))

\* line 765: driver.get(url) returns after dn seconds, within the page load
\* timeout of line 739, with a page whose markup matches the error-page
\* phrase list (err) or not; lines 767-776: the readiness wait is issued
FetchNavigate(dn, err) ==
    /\ f_pc = "attempt"
    /\ dn \in Elapsed(nav_timeout(f_timeout))
    /\ monotonic' = monotonic + dn
    /\ f_pc' = "ready"
    /\ f_ready_wait' = ready_wait(f_strategy, TimeBudget_left(deadline, monotonic + dn))
    /\ f_error_page' = err
    /\ UNCHANGED <<deadline, budget_call>>
    /\ UNCHANGED <<f_strategy, f_retries, f_timeout, f_start, f_probes, f_max_bytes, f_content, f_attempt,
                   f_exc, f_last_exc, did_early_accuracy, f_first, f_escalations,
                   f_driver, f_acquires, f_returns, f_pending, f_result>>
    /\ UNCHANGED <<poolVars, admVars, httpVars, probeVars, crawlVars>>

\* lines 767-814 and 817-826: the waits and the settle sleep take dt seconds
\* of the remaining budget, then the page source is returned, cut to
\* max_bytes (empty when page_source raises).  The accuracy profile returns
\* here only while the budget is not used up.
FetchAttemptReturn(dt, source_ok) ==
    /\ f_pc = "ready"
    /\ dt <= FetchLeft
    /\ f_strategy = "accuracy" => FetchLeft - dt > 0
    /\ monotonic' = monotonic + dt
    /\ f_pc' = "release"
    /\ f_pending' = [kind |-> "ok", status |-> 200,
                     nbytes |-> Capped(IF source_ok THEN f_content ELSE 0, f_max_bytes)]
    /\ UNCHANGED <<deadline, budget_call>>
    /\ UNCHANGED <<f_strategy, f_retries, f_timeout, f_start, f_ready_wait, f_error_page, f_probes, f_max_bytes, f_content, f_attempt,
                   f_exc, f_last_exc, did_early_accuracy, f_first, f_escalations,
                   f_driver, f_acquires, f_returns, f_result>>
    /\ UNCHANGED <<poolVars, admVars, httpVars, probeVars, crawlVars>>

\* lines 828-889: the accuracy profile with the budget used up by the
\* navigation and the waits.  page_source raises: `continue` (line 832).
\* Otherwise the page is returned with status 200, or, its markup matching
\* the error-page phrase list (line 836), with the status >= 400 that the
\* status probe of lines 838-868 reports.  The tests
\* `budget.left() > 3.0` of lines 875 and 881 are false here, the budget
\* being used up.
FetchAttemptLate(source_ok, status) ==
    /\ f_pc = "ready"
    /\ f_strategy = "accuracy"
    /\ status >= 400 => (source_ok /\ f_error_page)
    /\ f_probes' = IF source_ok /\ f_error_page THEN f_probes + 1 ELSE f_probes
    /\ monotonic' = Max(monotonic, deadline)
    /\ IF source_ok
       THEN /\ f_pc' = "release"
            /\ f_pending' = [kind |-> "ok", status |-> status,
                             nbytes |-> Capped(f_content, f_max_bytes)]
            /\ UNCHANGED f_attempt
       ELSE /\ f_pc' = "loop"
            /\ f_attempt' = f_attempt + 1
            /\ UNCHANGED f_pending
    /\ UNCHANGED <<deadline, budget_call>>
    /\ UNCHANGED <<f_strategy, f_retries, f_timeout, f_start, f_ready_wait, f_error_page, f_max_bytes, f_content,
                   f_exc, f_last_exc, did_early_accuracy, f_first, f_escalations,
                   f_driver, f_acquires, f_returns, f_result>>
    /\ UNCHANGED <<poolVars, admVars, httpVars, probeVars, crawlVars>>

\* lines 749-892: the attempt raises, the navigation within the page load
\* timeout or a later call within the remaining budget; `last_exc = e`
FetchAttemptRaise(dt, kind) ==
    /\ \/ f_pc = "attempt" /\ dt \in Elapsed(nav_timeout(f_timeout))
       \/ f_pc = "ready" /\ dt <= FetchLeft
    /\ monotonic' = monotonic + dt
    /\ f_pc' = "handler"
    /\ f_exc' = kind
    /\ f_last_exc' = kind
    /\ f_first' = IF f_attempt = 0
                  THEN [exc |-> kind, left |-> TimeBudget_left(deadline, monotonic + dt)]
                  ELSE f_first
    /\ UNCHANGED <<deadline, budget_call>>
    /\ UNCHANGED <<f_strategy, f_retries, f_timeout, f_start, f_ready_wait, f_error_page, f_probes, f_max_bytes, f_content, f_attempt,
                   did_early_accuracy, f_escalations,
                   f_driver, f_acquires, f_returns, f_pending, f_result>>
    /\ UNCHANGED <<poolVars, admVars, httpVars, probeVars, crawlVars>>

\* _attempt_with_temp_driver, line 569: the page load timeout of the
\* disposable worker, min(timeout_seconds, int(max(1.0, budget_left)))
effective_to(timeout, left) == Min(timeout, Max(1, left))

\* _attempt_with_temp_driver, lines 575-585: temp.get(url) within the page
\* load timeout, then the readiness wait of min(10, effective_to) seconds
TempAttemptTime(timeout, left) ==
    effective_to(timeout, left) + Min(ready_cap, effective_to(timeout, left))

\* lines 895-901: the condition of the early fallback
EarlyFallbackDue ==
    /\ ~did_early_accuracy
    /\ f_strategy = "speed"
    /\ FetchLeft > 2
    /\ f_exc = "renderer_timeout"

\* lines 894-914: the early fallback, _attempt_with_temp_driver with
\* js_strategy="accuracy", taking dt seconds.  res = "raise": _create_driver
\* raises (line 566), caught at line 913 before line 910 sets the flag;
\* res = "none": the attempt fails and returns None; res = "alt": it returns
\* the page, which the fetch returns.
FetchEarlyFallback(dt, res) ==
    /\ f_pc = "handler"
    /\ EarlyFallbackDue
    /\ dt \in Elapsed(TempAttemptTime(f_timeout, FetchLeft))
    /\ monotonic' = monotonic + dt
    /\ f_escalations' = f_escalations + 1
    /\ did_early_accuracy' = (res # "raise")
    /\ IF res = "alt"
       THEN /\ f_pc' = "release"
            /\ f_pending' = [kind |-> "ok", status |-> 200,
                             nbytes |-> Capped(f_content, f_max_bytes)]
       ELSE /\ f_pc' = "backoff"
            /\ UNCHANGED f_pending
    /\ UNCHANGED <<deadline, budget_call>>
    /\ UNCHANGED <<f_strategy, f_retries, f_timeout, f_start, f_ready_wait, f_error_page, f_probes, f_max_bytes, f_content, f_attempt,
                   f_exc, f_last_exc, f_first,
                   f_driver, f_acquires, f_returns, f_result>>
    /\ UNCHANGED <<poolVars, admVars, httpVars, probeVars, crawlVars>>

\* lines 915-919: out of budget: break; otherwise sleep min(backoff, left)
\* and go to the next attempt
FetchBackoff ==
    /\ \/ f_pc = "backoff"
       \/ f_pc = "handler" /\ ~EarlyFallbackDue
    /\ IF ~TimeBudget_ok(deadline, monotonic)
       THEN /\ f_pc' = "after_loop"
            /\ UNCHANGED <<monotonic, f_attempt>>
       ELSE /\ f_pc' = "loop"
            /\ monotonic' = monotonic + Min(backoff(f_attempt), FetchLeft)
            /\ f_attempt' = f_attempt + 1
    /\ UNCHANGED <<deadline, budget_call>>
    /\ UNCHANGED <<f_strategy, f_retries, f_timeout, f_start, f_ready_wait, f_error_page, f_probes, f_max_bytes, f_content,
                   f_exc, f_last_exc, did_early_accuracy, f_first, f_escalations,
                   f_driver, f_acquires, f_returns, f_pending, f_result>>
    /\ UNCHANGED <<poolVars, admVars, httpVars, probeVars, crawlVars>>

\* lines 928-931: the condition of the fallback after the loop
LateFallbackDue ==
    /\ f_last_exc # "none"
    /\ f_strategy = "speed"
    /\ FetchLeft > 2

\* lines 927-944: the fallback after the loop, _attempt_with_temp_driver with
\* js_strategy="accuracy"; its page is returned, otherwise last_exc is raised
FetchLateFallback(dt, res) ==
    /\ f_pc = "after_loop"
    /\ LateFallbackDue
    /\ dt \in Elapsed(TempAttemptTime(f_timeout, FetchLeft))
    /\ monotonic' = monotonic + dt
    /\ f_escalations' = f_escalations + 1
    /\ f_pc' = "release"
    /\ f_pending' = IF res = "alt"
                    THEN [kind |-> "ok", status |-> 200,
                          nbytes |-> Capped(f_content, f_max_bytes)]
                    ELSE [kind |-> "raise", status |-> 0, nbytes |-> 0]
    /\ UNCHANGED <<deadline, budget_call>>
    /\ UNCHANGED <<f_strategy, f_retries, f_timeout, f_start, f_ready_wait, f_error_page, f_probes, f_max_bytes, f_content, f_attempt,
                   f_exc, f_last_exc, did_early_accuracy, f_first,
                   f_driver, f_acquires, f_returns, f_result>>
    /\ UNCHANGED <<poolVars, admVars, httpVars, probeVars, crawlVars>>

\* lines 927-945 without the finally of line 947
FetchGiveUpNoFinally ==
    /\ f_pc = "after_loop"
    /\ ~LateFallbackDue
    /\ f_pc' = "done"
    /\ f_result' = [kind |-> "raise", status |-> 0, nbytes |-> 0]
    /\ UNCHANGED <<f_strategy, f_retries, f_timeout, f_start, f_ready_wait, f_error_page, f_probes, f_max_bytes, f_content, f_attempt,
                   f_exc, f_last_exc, did_early_accuracy, f_first, f_escalations,
                   f_driver, f_acquires, f_returns, f_pending>>
    /\ UNCHANGED <<poolVars, admVars, budgetVars, httpVars, probeVars, crawlVars>>

\* lines 927-945: no fallback: `raise last_exc`, or RuntimeError when no
\* attempt raised
FetchGiveUp ==
    /\ f_pc = "after_loop"
    /\ ~LateFallbackDue
    /\ f_pc' = "release"
    /\ f_pending' = [kind |-> "raise", status |-> 0, nbytes |-> 0]
    /\ UNCHANGED <<f_strategy, f_retries, f_timeout, f_start, f_ready_wait, f_error_page, f_probes, f_max_bytes, f_content, f_attempt,
                   f_exc, f_last_exc, did_early_accuracy, f_first, f_escalations,
                   f_driver, f_acquires, f_returns, f_result>>
    /\ UNCHANGED <<poolVars, admVars, budgetVars, httpVars, probeVars, crawlVars>>

\* lines 947-951: `finally: _return_driver(driver)`, then the pending return
\* or the pending exception, wrapped in WebDriverException, leaves _sync_fetch
FetchRelease ==
    /\ f_pc = "release"
    /\ f_pc' = "done"
    /\ f_driver' = "none"
    /\ f_returns' = f_returns + 1
    /\ f_result' = f_pending
    /\ UNCHANGED <<f_strategy, f_retries, f_timeout, f_start, f_ready_wait, f_error_page, f_probes, f_max_bytes, f_content, f_attempt,
                   f_exc, f_last_exc, did_early_accuracy, f_first, f_escalations,
                   f_acquires, f_pending>>
    /\ UNCHANGED <<poolVars, admVars, budgetVars, httpVars, probeVars, crawlVars>>

\* lines 368-387: mode "js" calls fetch_with_playwright, which runs
\* _selenium_fetch on a thread of the thread pool (js_fetcher.py, lines 956-977)
CrawlJs(js_strategy, retries, timeout, L, cap) ==
    /\ crawl_pc = "idle"
    /\ f_pc = "idle"
    /\ crawl_pc' = "js"
    /\ crawl_mode' = "js"
    /\ crawl_max_bytes' = cap
    /\ crawl_page' = PlainPage(200, L)
    /\ renderer_calls' = renderer_calls + 1
    /\ RenderCall(js_strategy, retries, timeout, L, cap)
    /\ UNCHANGED crawl_outcome
    /\ UNCHANGED <<poolVars, admVars, budgetVars, httpVars, probeVars>>

\* lines 375-387: fetch_with_playwright returned (status, final_url, data, ctype)
CrawlJsReturn ==
    /\ crawl_pc = "js"
    /\ f_pc = "done"
    /\ f_result.kind = "ok"
    /\ crawl_pc' = "done"
    /\ crawl_outcome' = [kind |-> "ok", status |-> f_result.status, nbytes |-> f_result.nbytes]
    /\ UNCHANGED <<crawl_mode, crawl_max_bytes, crawl_page, renderer_calls>>
    /\ UNCHANGED <<poolVars, admVars, budgetVars, httpVars, probeVars, renderVars>>

\* lines 388-400: fetch_with_playwright raised; HTTPException 504 or 502
CrawlJsRaise(code) ==
    /\ crawl_pc = "js"
    /\ f_pc = "done"
    /\ f_result.kind = "raise"
    /\ crawl_pc' = "done"
    /\ crawl_outcome' = [kind |-> "error", status |-> code, nbytes |-> 0]
    /\ UNCHANGED <<crawl_mode, crawl_max_bytes, crawl_page, renderer_calls>>
    /\ UNCHANGED <<poolVars, admVars, budgetVars, httpVars, probeVars, renderVars>>

Init ==
    /\ InitPool /\ InitAdm /\ InitBudget /\ InitHttp /\ InitProbe /\ InitCrawl
    /\ InitRender

\* the drivers in the idle queues
IdleDrivers == {d \in DriverIds : \E k \in Keys : \E i \in 1..Len(_driver_pools[k]) : _driver_pools[k][i] = d}

\* cleanup_drivers, lines 980-996, the shutdown hook of main.py (lines 101-104),
\* run when the requests in flight have ended: with _pool_lock, every idle
\* driver is taken and quit, and the flags and the counters are reset.  No
\* fetch starts afterwards.
cleanup_drivers ==
    /\ \A t \in Threads : tpc[t] = "idle"
    /\ PoolLockFree
    /\ drivers' = [d \in DriverIds |->
                     IF d \in IdleDrivers THEN [key |-> "normal", st |-> "free"] ELSE drivers[d]]
    /\ _driver_pools' = [k \in Keys |-> <<>>]
    /\ _pool_initialized' = [k \in Keys |-> FALSE]
    /\ _pool_sizes' = [k \in Keys |-> selenium_pool_size]
    /\ _pool_usage' = [k \in Keys |-> 0]
    /\ tpc' = [t \in Threads |-> "stopped"]
    /\ UNCHANGED <<_pool_lock, _scaling_lock, tkey, tdriver>>
    /\ UNCHANGED <<fetches_started, tblocked, admVars, fetchVars>>

NextPool ==
    \E t \in Threads :
        \/ GetDriverStart(t)
        \/ InitializePoolLock(t)
        \/ InitializePoolFill(t)
        \/ MaybeScalePoolCheck(t)
        \/ MaybeScalePoolAdd(t)
        \/ GetDriverCount(t)
        \/ GetDriverTake(t)
        \/ GetDriverTimeout(t)
        \/ TryEmergencyScaleCheck(t)
        \/ TryEmergencyScaleAdd(t)
        \/ GetDriverRetryTimeout(t)
        \/ ReturnDriverCount(t)
        \/ ReturnDriverPut(t)
        \/ MaybeScaleDownCheck(t)
        \/ MaybeScaleDownRemove(t)

NextAdm ==
    \E r \in Requests :
        \/ Arrive(r)
        \/ SemaphoreAcquire(r)
        \/ QueueTimeout(r)
        \/ UpdateCounters(r)
        \/ CallNext(r)

\* The worker pool under any number of concurrent fetches.
SpecPool == Init /\ [][NextPool]_vars

\* The worker pool from the first fetch to the shutdown of the process.
SpecShutdown == Init /\ [][NextPool \/ cleanup_drivers]_vars

\* The admission controller under any interleaving of the requests' steps.
SpecAdm == Init /\ [][NextAdm]_vars

\* The event loop runs every task that is ready, a timeout fires, and every
\* request handler terminates.
FairSpecAdm ==
    /\ Init
    /\ [][NextAdm]_vars
    /\ \A r \in Requests :
        /\ WF_vars(SemaphoreAcquire(r) \/ QueueTimeout(r))
        /\ WF_vars(UpdateCounters(r))
        /\ WF_vars(CallNext(r))

NextBudget ==
    \/ \E seconds \in Durations : TimeBudgetNew(seconds)
    \/ ClockTick
    \/ BudgetLeft
    \/ \E desired, floor \in Durations : BudgetSlice(desired, floor)

\* One time budget, read at any moment with any arguments.
SpecBudget == Init /\ [][NextBudget]_vars

NextHttp ==
    \/ \E L \in 0..MaxBody, cap \in 1..MaxCap, retries \in 0..MaxRetries, status \in StatusCodes :
            HttpStart(L, cap, retries, status)
    \/ \E n \in 0..MaxBody : HttpChunk(n)
    \/ HttpReturn
    \/ \E kind \in HttpExcKinds : HttpError(kind)

\* One caller of fetch_with_httpx, any body, any chunking, any failures.
SpecHttp == Init /\ [][NextHttp]_vars

NextProbe ==
    \/ \E p \in ProbePages, cap \in 1..MaxCap : PreflightCall(p, cap)
    \/ \E cap \in 1..MaxCap : PreflightRaise(cap)

\* preflight called with the parameters it declares, on any page.
SpecProbe == Init /\ [][NextProbe]_vars

Fallbacks == {"raise", "none", "alt"}

\* the pages rendered: empty, one byte, the longest; the byte caps asked for:
\* the smallest and the largest
PageLengths == {0, 1, MaxBody}
ByteCaps == {1, MaxCap}

NextRender ==
    \/ \E js_strategy \in Strategies, retries \in 0..MaxRetries, timeout \in 1..MaxTimeout,
          L \in PageLengths, cap \in ByteCaps :
            RenderStart(js_strategy, retries, timeout, L, cap)
    \/ \E dt \in 0..MaxTimeout : FetchAcquire(dt)
    \/ FetchAcquireRaise
    \/ \E ok \in BOOLEAN : FetchSetup(ok)
    \/ FetchLoop
    \/ \E dn \in 0..MaxTimeout, err \in BOOLEAN : FetchNavigate(dn, err)
    \/ \E dt \in 0..MaxTimeout, source_ok \in BOOLEAN : FetchAttemptReturn(dt, source_ok)
    \/ \E source_ok \in BOOLEAN, status \in StatusCodes : FetchAttemptLate(source_ok, status)
    \/ \E dt \in 0..MaxTimeout, kind \in ExcKinds : FetchAttemptRaise(dt, kind)
    \/ \E dt \in 0..(2 * MaxTimeout), res \in Fallbacks : FetchEarlyFallback(dt, res)
    \/ FetchBackoff
    \/ \E dt \in 0..(2 * MaxTimeout), res \in Fallbacks : FetchLateFallback(dt, res)
    \/ FetchGiveUp
    \/ FetchRelease

\* One render fetch: any profile, any failures, any timing.
SpecRender == Init /\ [][NextRender]_vars

NextCrawl ==
    \/ \E status \in StatusCodes, L \in 0..MaxBody, cap \in 1..MaxCap, retries \in 0..MaxRetries :
            CrawlFast(status, L, cap, retries)
    \/ CrawlFastReturn
    \/ \E code \in {502, 504} : CrawlFastRaise(code)
    \/ \E p \in CrawlPages, cap \in 1..MaxCap : CrawlAuto(p, cap)
    \/ \E js_strategy \in Strategies, retries \in 0..MaxRetries, timeout \in 1..MaxTimeout,
          L \in PageLengths, cap \in ByteCaps :
            CrawlJs(js_strategy, retries, timeout, L, cap)
    \/ CrawlJsReturn
    \/ \E code \in {502, 504} : CrawlJsRaise(code)
    \/ \E n \in 0..MaxBody : HttpChunk(n)
    \/ HttpReturn
    \/ \E kind \in HttpExcKinds : HttpError(kind)
    \/ \E dt \in 0..MaxTimeout : FetchAcquire(dt)
    \/ FetchAcquireRaise
    \/ \E ok \in BOOLEAN : FetchSetup(ok)
    \/ FetchLoop
    \/ \E dn \in 0..MaxTimeout, err \in BOOLEAN : FetchNavigate(dn, err)
    \/ \E dt \in 0..MaxTimeout, source_ok \in BOOLEAN : FetchAttemptReturn(dt, source_ok)
    \/ \E source_ok \in BOOLEAN, status \in StatusCodes : FetchAttemptLate(source_ok, status)
    \/ \E dt \in 0..MaxTimeout, kind \in ExcKinds : FetchAttemptRaise(dt, kind)
    \/ \E dt \in 0..(2 * MaxTimeout), res \in Fallbacks : FetchEarlyFallback(dt, res)
    \/ FetchBackoff
    \/ \E dt \in 0..(2 * MaxTimeout), res \in Fallbacks : FetchLateFallback(dt, res)
    \/ FetchGiveUp
    \/ FetchRelease

\* One accepted request to crawl, in any mode.
SpecCrawl == Init /\ [][NextCrawl]_vars

(***************************************************************************)
(* Properties of the worker pool                                           *)
(***************************************************************************)
\* No _get_driver, _return_driver or scaling call is in progress.
Quiescent ==
    /\ \A t \in Threads : tpc[t] = "idle"
    /\ ScalingLockFree
    /\ PoolLockFree

Idle(key) == Len(_driver_pools[key])

\* The threads whose fetch holds a driver: from the get that returned it to the
\* put (or the quit) of _return_driver.
Holders == {t \in Threads : tpc[t] \in {"have", "health"}}

QueueMembers(key) == {_driver_pools[key][i] : i \in 1..Len(_driver_pools[key])}

\* C1: at every quiescent point of an initialised pool that holds no broken
\* driver, idle + inUse = targetSize:
\* _driver_pools[key].qsize() + _pool_usage[key] = _pool_sizes[key].
C1_QuiescentAccounting ==
    (Quiescent /\ \A d \in DriverIds : drivers[d].st # "dead")
        => \A key \in Keys :
            _pool_initialized[key] => Idle(key) + _pool_usage[key] = _pool_sizes[key]

\* C2: in every reachable state, for each pool,
\* floorSize <= targetSize <= ceilingSize.
C2_SizeWithinBounds ==
    \A key \in Keys :
        /\ selenium_pool_size <= _pool_sizes[key]
        /\ _pool_sizes[key] <= selenium_max_pool_size

\* A pool grown to its ceiling while a caller whose wait timed out asks for an
\* emergency growth.
C2_Witness ==
    \E key \in Keys : \E t \in Threads :
        /\ _pool_sizes[key] = selenium_max_pool_size
        /\ selenium_max_pool_size > selenium_pool_size
        /\ tpc[t] = "emerg"
        /\ tkey[t] = key

\* C3: no driver is held by two fetches at the same time, and no driver held
\* by a fetch sits in an idle queue.
C3_ExclusiveLending ==
    /\ \A t1, t2 \in Holders : t1 # t2 => tdriver[t1] # tdriver[t2]
    /\ \A t \in Holders : \A key \in Keys : tdriver[t] \notin QueueMembers(key)

\* Two fetches hold drivers while a broken driver, whose replacement could not
\* be created, sits in the 'normal' queue.
C3_Witness ==
    /\ Cardinality(Holders) >= 2
    /\ \E d \in QueueMembers("normal") : drivers[d].st = "dead"

(***************************************************************************)
(* Properties of the admission controller                                  *)
(***************************************************************************)
\* The requests between slot acquisition and slot release.
InHandler == {r \in Requests : rpc[r] \in {"got", "run"}}
Running == {r \in Requests : rpc[r] = "run"}
\* The requests parked on the semaphore.
Parked == {r \in Requests : rpc[r] = "wait"}
Rejected == {r \in Requests : rpc[r] = "done" /\ status_code[r] = 503}
TimedOut == {r \in Requests : rpc[r] = "done" /\ status_code[r] = 504}
Outcomes == {200, 502, 503, 504}

\* C4: at most capacity requests are between slot acquisition and slot
\* release, and 0 <= _concurrent_requests <= _max_concurrent.
C4_CapacityBound ==
    /\ Cardinality(InHandler) <= _max_concurrent
    /\ 0 <= _concurrent_requests
    /\ _concurrent_requests <= _max_concurrent

\* Capacity is used up and a further request waits for a slot.
C4_Witness ==
    /\ Cardinality(Running) = _max_concurrent
    /\ _concurrent_requests = _max_concurrent
    /\ Parked # {}

\* C5: 0 <= _waiting_count <= settings.max_queue_size in every reachable state.
C5_WaitingBounded ==
    /\ 0 <= _waiting_count
    /\ _waiting_count <= max_queue_size

\* The waiting room is full, and a request that found _waiting_count at 0
\* has passed the update of the counters.
C5_Witness ==
    /\ _waiting_count = max_queue_size
    /\ \E r \in Parked : queued[r]
    /\ \E r \in Requests : rpc[r] \in {"run", "done"} /\ acquired[r] /\ ~queued[r]

\* What the arrival step of r does when it rejects: 503, nothing else changes.
RejectedOnArrival(r) ==
    /\ status_code'[r] = 503
    /\ rpc'[r] = "done"
    /\ UNCHANGED <<_concurrent_requests, _waiting_count, _request_semaphore>>

\* C6, as claimed: a request arriving while waiting = maxQueue is rejected with
\* 503 within its arrival step, leaving inFlight, waiting and the semaphore unchanged.
C6_RejectedWhenRoomFull ==
    [][\A r \in Requests :
        (rpc[r] = "new" /\ rpc'[r] # "new" /\ _waiting_count = max_queue_size)
            => RejectedOnArrival(r)]_vars

\* C6, amended: a request arriving while waiting = maxQueue and no slot is
\* free by the counter (_concurrent_requests >= _max_concurrent) is rejected
\* with 503 within its arrival step, leaving inFlight, waiting and the
\* semaphore unchanged.
C6_RejectedWhenRoomFullAndBusy ==
    [][\A r \in Requests :
        (rpc[r] = "new" /\ rpc'[r] # "new" /\ _waiting_count = max_queue_size
            /\ _concurrent_requests >= _max_concurrent)
            => RejectedOnArrival(r)]_vars

\* A request was rejected while capacity is used up and the waiting room is full.
C6_Witness ==
    /\ Rejected # {}
    /\ _waiting_count = max_queue_size
    /\ _concurrent_requests = _max_concurrent
    /\ Cardinality(Running) = _max_concurrent

\* C7: once capacity + maxQueue + k requests (k >= 1) have arrived and
\* settled, no handler having completed and no wait having timed out, exactly
\* capacity requests run, exactly maxQueue are parked and the other k were
\* rejected with 503.
C7_ScenarioD ==
    ( /\ NumRequests > _max_concurrent + max_queue_size
      /\ \A r \in Requests : rpc[r] \in {"run", "wait", "done"}
      /\ \A r \in Requests : status_code[r] \in {0, 503}
      /\ (_request_semaphore = 0 \/ Parked = {}) )
        => /\ Cardinality(Running) = _max_concurrent
           /\ Cardinality(Parked) = max_queue_size
           /\ Cardinality(Rejected) = NumRequests - _max_concurrent - max_queue_size

\* C8: every request that arrived ends with exactly one of the outcomes 200,
\* 502, 503, 504, and while a request is pending some step of a pending
\* request is enabled.
C8_EveryRequestAnswered ==
    /\ \A r \in Requests :
        (rpc[r] # "new") ~> (rpc[r] = "done" /\ status_code[r] \in Outcomes)
    /\ [][\A r \in Requests :
            status_code[r] # 0 => status_code'[r] = status_code[r]]_vars
    /\ []((\E r \in Requests : rpc[r] \in {"wait", "got", "run"})
            => ENABLED (\E r \in Requests :
                    \/ SemaphoreAcquire(r)
                    \/ QueueTimeout(r)
                    \/ UpdateCounters(r)
                    \/ CallNext(r)))

\* All requests are answered: some by the handler after it raised, one by a
\* queue timeout, one by the rejection.
C8_Witness ==
    /\ \A r \in Requests : rpc[r] = "done"
    /\ Rejected # {}
    /\ TimedOut # {}
    /\ \E r \in Requests : status_code[r] = 502

\* C9: a request that acquired a slot has, once done, decremented
\* _concurrent_requests once and released the semaphore once, and neither
\* before; a request that acquired no slot never does either.
C9_ReleaseExactlyOnce ==
    \A r \in Requests :
        /\ (rpc[r] = "done" /\ acquired[r]) => (decrements[r] = 1 /\ releases[r] = 1)
        /\ (rpc[r] # "done" \/ ~acquired[r]) => (decrements[r] = 0 /\ releases[r] = 0)

\* One request ended by a raising handler, one by a queue timeout, one by the
\* rejection.
C9_Witness ==
    /\ \E r \in Requests : rpc[r] = "done" /\ status_code[r] = 502 /\ acquired[r]
    /\ \E r \in TimedOut : ~acquired[r]
    /\ \E r \in Rejected : ~acquired[r]

\* C10: a request that incremented _waiting_count and times out waiting for a
\* slot is answered 504 and decrements _waiting_count.
C10_TimeoutLeavesWaitingRoom ==
    [][\A r \in Requests :
        (rpc[r] = "wait" /\ queued[r] /\ rpc'[r] = "done")
            => (status_code'[r] = 504 /\ _waiting_count' = _waiting_count - 1)]_vars

(***************************************************************************)
(* Properties of the time budget                                           *)
(***************************************************************************)
\* C11: slice(desired, floor) returns 0 whenever the remaining budget is 0,
\* whatever desired and floor are, and left() is never negative.
C11_ExhaustedSliceIsZero ==
    /\ (budget_call.op = "slice" /\ budget_call.remaining = 0) => budget_call.result = 0
    /\ budget_call.op = "left" => budget_call.result >= 0
    /\ TimeBudget_left(deadline, monotonic) >= 0

\* C11: slice was called with a positive desired and a positive floor on a
\* budget whose deadline has passed.
C11_Witness ==
    /\ budget_call.op = "slice"
    /\ budget_call.remaining = 0
    /\ budget_call.desired > 0
    /\ budget_call.floor > 0
    /\ monotonic > deadline

\* C12: with remaining > 0, slice(desired, floor) returns a non-zero v with
\* min(floor, remaining) <= v <= min(desired, remaining); slice returns 0 only
\* when the budget is exhausted.
C12_SliceWithinInterval ==
    budget_call.op = "slice" =>
        /\ budget_call.remaining > 0 =>
            /\ budget_call.result # 0
            /\ Min(budget_call.floor, budget_call.remaining) <= budget_call.result
            /\ budget_call.result <= Min(budget_call.desired, budget_call.remaining)
        /\ budget_call.result = 0 => budget_call.remaining = 0

(***************************************************************************)
(* Properties of the direct transfer fetcher                               *)
(***************************************************************************)
\* C13: fetch_with_httpx on a body of length L streamed in any chunking
\* returns exactly min(L, max_bytes) bytes, a prefix of the body (max_bytes of
\* them when L > max_bytes, never more), and it reads no further chunk once
\* the buffer exceeds max_bytes.
C13_ByteCap ==
    /\ http_pc = "returned" =>
        /\ Len(http_result.bytes) = Min(http_body, http_max_bytes)
        /\ http_result.bytes = SubSeq(Body(http_body), 1, Len(http_result.bytes))
        /\ http_result.status = http_status
    /\ http_pc = "stream" => Len(http_buf) <= http_max_bytes

\* C13: a body longer than the cap arrived in several chunks, the last of
\* which crossed the cap, with more of the body still unread.
C13_Witness ==
    /\ http_pc = "returned"
    /\ http_body > http_max_bytes
    /\ Len(http_buf) > http_max_bytes
    /\ http_pos < http_body
    /\ Len(http_result.bytes) = http_max_bytes

StaticPage(p) ==
    /\ p.kind = "html"
    /\ p.text_len >= 800
    /\ ~p.spa_mark /\ ~p.js_required /\ ~p.consent
    /\ ~p.bot_wall /\ ~p.youtube /\ ~p.rss_link

\* the page of Scenario B: consent phrasing and none of the signals that are
\* tested before it
ConsentPage(p) ==
    /\ p.kind = "html"
    /\ p.consent
    /\ ~p.bot_wall /\ ~p.youtube /\ ~p.rss_link

\* C15: in automatic mode a page whose probe shows text length >= 800, no SPA
\* marker, no JS-required phrase, no consent phrase and no bot-challenge,
\* video-domain or feed-link signal is classified HTTP_ONLY, and the fetch
\* returns the probe's status and bytes without acquiring a renderer worker.
C15_StaticPageServedFromProbe ==
    (crawl_pc = "done" /\ crawl_mode = "auto" /\ StaticPage(crawl_page)) =>
        /\ SelectStrategy(crawl_page) = "HTTP_ONLY"
        /\ crawl_outcome.kind = "ok"
        /\ crawl_outcome.status = crawl_page.status
        /\ crawl_outcome.nbytes = crawl_page.nbytes
        /\ renderer_calls = 0
        /\ f_acquires = 0

\* C16: a page with consent phrasing and no bot-challenge, video-domain or
\* feed-link signal is classified JS_LIGHT_CONSENT whatever its text length,
\* and automatic mode then takes the render path: fetch_with_playwright is
\* invoked.
C16_ConsentPageRendered ==
    (crawl_pc = "done" /\ crawl_mode = "auto" /\ ConsentPage(crawl_page)) =>
        /\ SelectStrategy(crawl_page) = "JS_LIGHT_CONSENT"
        /\ renderer_calls >= 1

(***************************************************************************)
(* Properties of scaling and acquisition                                   *)
(***************************************************************************)
\* the scale-up condition in the words of the claim: inUse / targetSize >=
\* scaleThreshold, idle <= 1, targetSize < ceilingSize
ScaleUpCondition(key) ==
    /\ _pool_usage[key] * scale_threshold_den >= scale_threshold_num * _pool_sizes[key]
    /\ Idle(key) <= 1
    /\ _pool_sizes[key] < selenium_max_pool_size

\* the scale check of thread t decides for growth exactly under the
\* condition, and the decision itself changes nothing
ScaleCheckStep(t) ==
    (tpc[t] = "scale" /\ tpc'[t] # "scale" /\ _pool_sizes[tkey[t]] >= 1) =>
        /\ (tpc'[t] = "scale_cs") <=> ScaleUpCondition(tkey[t])
        /\ UNCHANGED <<_pool_sizes, _driver_pools, _pool_usage, drivers>>

\* exactly one new worker joins the idle queue of the pool and targetSize
\* grows by exactly 1, the caller not yet counted in inUse
GrownByOne(t) ==
    LET key == tkey[t]
        q == _driver_pools'[key]
    IN  /\ _pool_sizes' = [_pool_sizes EXCEPT ![key] = @ + 1]
        /\ Len(q) = Len(_driver_pools[key]) + 1
        /\ SubSeq(q, 1, Len(q) - 1) = _driver_pools[key]
        /\ drivers[q[Len(q)]].st = "free"
        /\ drivers'[q[Len(q)]] = [key |-> key, st |-> "ok"]
        /\ \A k \in Keys \ {key} : _driver_pools'[k] = _driver_pools[k]
        /\ UNCHANGED _pool_usage

\* C17 as stated: on acquire, before the caller is counted in inUse and
\* before it blocks, if inUse / targetSize >= scaleThreshold and idle <= 1
\* and targetSize < ceilingSize then exactly one worker is created and added
\* and targetSize increases by exactly 1; otherwise the scale check leaves
\* targetSize and the idle set unchanged.
C17_ScaleUpExactlyOne ==
    [][\A t \in Threads :
        /\ ScaleCheckStep(t)
        /\ (tpc[t] = "scale_cs" /\ tpc'[t] # "scale_cs") => GrownByOne(t)]_vars

\* C17 amended: as C17, except that the creation of the worker may fail, and
\* then targetSize and the idle set stay unchanged.
C17_ScaleUpOneOrCreationFails ==
    [][\A t \in Threads :
        /\ ScaleCheckStep(t)
        /\ (tpc[t] = "scale_cs" /\ tpc'[t] # "scale_cs") =>
              \/ GrownByOne(t)
              \/ UNCHANGED <<_pool_sizes, _driver_pools, _pool_usage, drivers>>]_vars

\* C17: every worker of the floor is lent, and the next caller has grown the
\* pool by one before it is counted and before it waits.
C17_Witness ==
    \E key \in Keys : \E t \in Threads :
        /\ tpc[t] = "incr"
        /\ tkey[t] = key
        /\ Cardinality({h \in Holders : tkey[h] = key}) = selenium_pool_size
        /\ _pool_usage[key] = selenium_pool_size
        /\ _pool_sizes[key] = selenium_pool_size + 1
        /\ Idle(key) = 1

\* C19: a call of _get_driver with the requested timeout T has, when it ends
\* with a worker or with the timeout error and at every moment before, been
\* blocked on the idle queue for at most T in total, the primary wait and the
\* retry wait after the emergency scale taken together.
C19_BlockedWithinTimeout ==
    \A t \in Threads : tblocked[t] <= acquire_timeout

(***************************************************************************)
(* Properties of the render executor                                       *)
(***************************************************************************)
\* C18: a render fetch in the speed profile whose first attempt raises a
\* renderer timeout with budget remaining (more than the 2 seconds the
\* fallback of line 898 asks for), and which ends in the final failure, has
\* made exactly one escalation attempt with a disposable accuracy-profile
\* worker, whatever retries is.
C18_ExactlyOneEscalation ==
    ( /\ f_pc = "done"
      /\ f_strategy = "speed"
      /\ f_first.exc = "renderer_timeout"
      /\ f_first.left > 2
      /\ f_result.kind = "raise" )
        => f_escalations = 1

\* C20: a worker obtained by _get_driver in _sync_fetch is released through
\* _return_driver exactly once on every exit path, and no worker is released
\* that was not acquired.
C20_ReleasedExactlyOnce ==
    /\ f_acquires <= 1
    /\ f_returns <= f_acquires
    /\ (f_driver = "held") <=> (f_acquires = 1 /\ f_returns = 0)
    /\ f_pc = "done" => f_returns = f_acquires

\* C20: a fetch that failed in every attempt, tried the disposable worker and
\* raised has released its worker.
C20_Witness ==
    /\ f_pc = "done"
    /\ f_result.kind = "raise"
    /\ f_attempt >= 1
    /\ f_escalations >= 1
    /\ f_acquires = 1
    /\ f_returns = 1

\* C21: a render fetch never ends in an empty success: a fetch of a page that
\* has markup returns status 200 only together with bytes of that markup;
\* when page_source cannot be read the fetch raises instead.
C21_NoEmptySuccess ==
    ( /\ f_pc = "done"
      /\ f_result.kind = "ok"
      /\ f_result.status = 200
      /\ f_content > 0 )
        => f_result.nbytes > 0

(***************************************************************************)
(* Properties of the preflight classifier and of the routing               *)
(***************************************************************************)
\* the labels preflight can return (its docstring, lines 27 and 84-96)
Labels ==
    {"HTTP_ONLY", "JS_LIGHT", "JS_LIGHT_CONSENT", "HTTP_THEN_JS", "PDF", "RSS", "YOUTUBE",
     "BLOCKED"}

\* the decision order as a list of rules, each a condition and its label
Rules(p) ==
    << <<p.bot_wall, "BLOCKED">>,
       <<p.youtube, "YOUTUBE">>,
       <<p.rss_link, "RSS">>,
       <<p.text_len >= 800 /\ (p.has_main \/ ~p.spa_mark) /\ ~p.js_required /\ ~p.consent,
         "HTTP_ONLY">>,
       <<(p.spa_mark \/ (p.has_main /\ p.text_len < 500) \/ p.js_required) /\ ~p.consent,
         "JS_LIGHT">>,
       <<p.consent, "JS_LIGHT_CONSENT">> >>

Matching(p) == {i \in 1..Len(Rules(p)) : Rules(p)[i][1]}

\* first match wins; HTTP_THEN_JS when no rule matches
FirstMatch(p) ==
    IF Matching(p) = {} THEN "HTTP_THEN_JS" ELSE Rules(p)[MinOf(Matching(p))][2]

\* C22: for every combination of the features of a probed page the label of
\* the classifier is the one of the first rule that matches, in the order
\* BLOCKED, YOUTUBE, RSS, HTTP_ONLY, JS_LIGHT / JS_LIGHT_CONSENT, and
\* HTTP_THEN_JS when no rule matches; every probe that returns carries exactly
\* one of the known labels.
C22_FirstMatchWins ==
    probe_pc = "returned" =>
        /\ pf.strategy \in Labels
        /\ probe_page.kind = "html" => pf.strategy = FirstMatch(probe_page)

\* C22: a page on which three rules match (feed link, JS-required phrase and
\* consent phrase) was probed and got the label of the first of them.
C22_Witness ==
    /\ probe_pc = "returned"
    /\ probe_page.kind = "html"
    /\ ~probe_page.bot_wall /\ ~probe_page.youtube
    /\ probe_page.rss_link /\ probe_page.js_required /\ probe_page.consent
    /\ Cardinality(Matching(probe_page)) >= 2
    /\ pf.strategy = "RSS"

(***************************************************************************)
(* Further properties of the admission controller                          *)
(***************************************************************************)
\* C23: a request whose arrival check found _concurrent_requests below
\* _max_concurrent gets its slot without blocking on the semaphore: while it
\* is at the acquisition a permit is free, under any interleaving with other
\* requests.
C23_ImmediateSlotNeverBlocks ==
    \A r \in Requests :
        (rpc[r] = "wait" /\ ~queued[r]) => _request_semaphore > 0

\* the requests blocked in _request_semaphore.acquire()
Blocked == {r \in Requests : rpc[r] = "wait" /\ _request_semaphore = 0}

\* the requests that incremented _waiting_count and have not yet passed the
\* update of the counters
Counted == {r \in Requests : queued[r] /\ rpc[r] \in {"wait", "got"}}

\* C24: _waiting_count is the number of requests parked for a slot: every
\* request blocked on the semaphore has incremented it, it counts exactly
\* the requests that incremented it and have not got their slot yet, and so
\* at most max_queue_size requests are parked.
C24_WaitingCountsParked ==
    /\ \A r \in Blocked : queued[r]
    /\ _waiting_count = Cardinality(Counted)
    /\ Cardinality(Blocked) <= max_queue_size

C27_LabelSelectsPath ==
    (crawl_pc = "done" /\ crawl_mode = "auto") =>
        LET res == preflight(crawl_page)
            FromProbe == /\ crawl_outcome.kind = "ok"
                         /\ crawl_outcome.status = crawl_page.status
                         /\ crawl_outcome.nbytes = crawl_page.nbytes
                         /\ renderer_calls = 0
        IN  /\ res.strategy \in {"PDF", "RSS", "YOUTUBE", "HTTP_ONLY"} => FromProbe
            /\ res.strategy \in {"JS_LIGHT", "JS_LIGHT_CONSENT"} => renderer_calls >= 1
            /\ res.strategy = "HTTP_THEN_JS" =>
                    IF res.text_len >= 700 THEN FromProbe ELSE renderer_calls >= 1

(***************************************************************************)
(* Further properties of scaling, acquisition and release                  *)
(***************************************************************************)
\* _get_driver of thread t ends without a worker: the TimeoutException of
\* line 227
AcquireFailed(t) ==
    /\ tpc'[t] = "idle"
    /\ tdriver'[t] = NoDriver

\* after the primary wait timed out: below the ceiling one growth is
\* attempted, at the ceiling nothing is created and the acquisition fails
\* without a second wait
EmergencyCheckStep(t) ==
    (tpc[t] = "emerg" /\ tpc'[t] # "emerg") =>
        /\ IF _pool_sizes[tkey[t]] < selenium_max_pool_size
           THEN tpc'[t] = "emerg_cs"
           ELSE AcquireFailed(t)
        /\ UNCHANGED <<_pool_sizes, _driver_pools, _pool_usage, drivers>>

\* the wait is retried once: it ends with a worker or with the failure, and
\* no further growth follows
RetryStep(t) ==
    (tpc[t] = "retry" /\ tpc'[t] # "retry") =>
        /\ tpc'[t] = "have" \/ AcquireFailed(t)
        /\ UNCHANGED _pool_sizes

\* C28 as stated: when the primary wait of _get_driver times out on an empty
\* pool, at most one emergency growth is attempted: below the ceiling one
\* worker is added, targetSize grows by exactly 1 whatever the usage ratio
\* and the wait is retried once; at the ceiling no worker is created and the
\* acquisition fails without a second wait; a failing acquisition raises
\* the timeout error.
C28_EmergencyGrowsByOne ==
    [][\A t \in Threads :
        /\ EmergencyCheckStep(t)
        /\ (tpc[t] = "emerg_cs" /\ tpc'[t] # "emerg_cs") =>
                (GrownByOne(t) /\ tpc'[t] = "retry")
        /\ RetryStep(t)]_vars

\* C28 amended: as C28, except that the creation of the worker may fail, and
\* then targetSize and the idle set stay unchanged and the acquisition fails
\* with the timeout error without a second wait.
C28_EmergencyGrowsOrCreationFails ==
    [][\A t \in Threads :
        /\ EmergencyCheckStep(t)
        /\ (tpc[t] = "emerg_cs" /\ tpc'[t] # "emerg_cs") =>
              \/ GrownByOne(t) /\ tpc'[t] = "retry"
              \/ /\ UNCHANGED <<_pool_sizes, _driver_pools, _pool_usage, drivers>>
                 /\ AcquireFailed(t)
        /\ RetryStep(t)]_vars

\* C28: a thread whose primary wait timed out has grown the pool to the
\* ceiling and retries the wait, and another thread has taken the new worker:
\* the retry will fail.
C28_Witness ==
    \E t \in Threads :
        /\ tpc[t] = "retry"
        /\ tblocked[t] = acquire_timeout
        /\ _pool_sizes[tkey[t]] = selenium_max_pool_size
        /\ _driver_pools[tkey[t]] = <<>>

\* the scale-down condition in the words of the claim: targetSize >
\* floorSize, idle > 70% of targetSize, inUse < 30% of targetSize
ScaleDownCondition(key) ==
    /\ _pool_sizes[key] > selenium_pool_size
    /\ Idle(key) * 10 > 7 * _pool_sizes[key]
    /\ _pool_usage[key] * 10 < 3 * _pool_sizes[key]

\* the workers lent to a thread
Lent == {tdriver[h] : h \in Holders}

\* the head of the idle queue of the pool of thread t is removed and
\* destroyed and targetSize decreases by exactly 1
ShrunkByOne(t) ==
    LET key == tkey[t]
        q == _driver_pools[key]
    IN  /\ q # <<>>
        /\ _driver_pools' = [_driver_pools EXCEPT ![key] = Tail(q)]
        /\ Head(q) \notin Lent
        /\ drivers'[Head(q)].st = "free"
        /\ _pool_sizes' = [_pool_sizes EXCEPT ![key] = @ - 1]

\* C29: a healthy release removes and destroys one idle worker and
\* decrements targetSize by 1 exactly when, after the worker was returned,
\* targetSize > floorSize and idle > 70% of targetSize and inUse < 30% of
\* targetSize; otherwise it leaves targetSize unchanged.  One release never
\* removes more than one worker, and never one that is lent.
C29_ScaleDownExactlyOne ==
    [][\A t \in Threads :
        /\ (tpc[t] = "down" /\ tpc'[t] # "down") =>
                /\ (tpc'[t] = "down_cs") <=> ScaleDownCondition(tkey[t])
                /\ UNCHANGED <<_pool_sizes, _driver_pools, drivers>>
        /\ (tpc[t] = "down_cs" /\ tpc'[t] # "down_cs") => ShrunkByOne(t)]_vars

\* C30: when the liveness probe fails on release, the failed worker is
\* destroyed and not put back into any idle set; a freshly created worker of
\* the same profile is appended to the idle queue of the same pool and
\* targetSize is unchanged; also when the creation of the replacement fails.
C30_BrokenWorkerReplaced ==
    [][\A t \in Threads :
        (tpc[t] = "health" /\ tpc'[t] = "idle") =>
            LET key == tkey[t]
                q == _driver_pools'[key]
            IN  /\ Len(q) = Len(_driver_pools[key]) + 1
                /\ SubSeq(q, 1, Len(q) - 1) = _driver_pools[key]
                /\ drivers'[q[Len(q)]] = [key |-> key, st |-> "ok"]
                /\ \A k \in Keys \ {key} : _driver_pools'[k] = _driver_pools[k]
                /\ UNCHANGED _pool_sizes]_vars

(***************************************************************************)
(* Properties of the pools' life cycle                                     *)
(***************************************************************************)
\* C31: a pool is populated lazily and exactly once: it holds no worker
\* before its first acquisition has initialized it, the step that sets the
\* initialized flag leaves it with exactly floorSize workers, however many
\* callers acquire first at the same time, and the flag is set once.
C31_PopulatedOnce ==
    [][\A key \in Keys :
        /\ _pool_initialized[key] => _pool_initialized'[key]
        /\ ~_pool_initialized[key] => _driver_pools[key] = <<>>
        /\ (~_pool_initialized[key] /\ _pool_initialized'[key]) =>
                /\ Len(_driver_pools'[key]) = selenium_pool_size
                /\ _pool_sizes'[key] = selenium_pool_size]_vars

\* C32: the two pools are independent and workers never migrate: after every
\* step each idle set holds only workers created for its own profile, and a
\* step of an acquisition, a release or a scaling operation on one profile
\* leaves targetSize, inUse and the idle set of the other profile unchanged.
C32_PoolsIndependent ==
    [][/\ \A k \in Keys : \A i \in 1..Len(_driver_pools'[k]) :
            drivers'[_driver_pools'[k][i]].key = k
       /\ \A t \in Threads :
            tpc'[t] # tpc[t] =>
                \A k \in Keys \ {tkey'[t]} :
                    /\ _driver_pools'[k] = _driver_pools[k]
                    /\ _pool_sizes'[k] = _pool_sizes[k]
                    /\ _pool_usage'[k] = _pool_usage[k]]_vars

(***************************************************************************)
(* Further properties of the render executor                               *)
(***************************************************************************)
\* C33: the retry loop makes at most min(retries, 1) + 1 navigation attempts
\* on the pooled worker in the speed profile and at most retries + 1 in the
\* accuracy profile; the sleep after the failed attempt k is
\* min(min(2^k, 5), remaining budget).
C33_AttemptsAndBackoff ==
    [][/\ f_pc' = "attempt" =>
            f_attempt' + 1 <= (IF f_strategy' = "speed"
                               THEN Min(f_retries', 1) + 1
                               ELSE f_retries' + 1)
       /\ (f_pc \in {"handler", "backoff"} /\ f_pc' \in {"loop", "after_loop"}) =>
            monotonic' - monotonic = Min(Min(2 ^ f_attempt, 5), FetchLeft)]_vars

\* C33: a fetch in the speed profile with three retries has left the loop
\* after two failed attempts with budget remaining.
C33_Witness ==
    /\ f_pc = "after_loop"
    /\ f_strategy = "speed"
    /\ f_retries = 3
    /\ f_attempt = 2
    /\ f_last_exc # "none"
    /\ FetchLeft > 0

\* ---------------------------------------------------------------------------
\* The time budget of a render fetch

\* the fetch has made its TimeBudget (line 733) and has not left the loop code
BudgetMade == f_pc \in {"loop", "attempt", "ready", "handler", "backoff", "after_loop"}

\* the budget of the fetch is used up
BudgetExhausted == BudgetMade /\ FetchLeft = 0

\* C34: once the budget of a fetch is exhausted the fetch starts no further
\* navigation attempt, no disposable worker and no backoff sleep, every wait
\* it still issues has zero length, and it releases the worker and raises
C34_ExhaustedFailsFast ==
    [][/\ BudgetExhausted =>
            /\ f_pc' # "attempt"
            /\ f_escalations' = f_escalations
            /\ (f_pc \in {"handler", "backoff"} => monotonic' = monotonic)
            /\ (f_pc' = "release" => f_pending'.kind = "raise")
       /\ (f_pc' = "ready" /\ TimeBudget_left(deadline', monotonic') = 0) =>
            f_ready_wait' = 0]_vars

\* C35: from the call of a render fetch to its end, worker acquisition
\* included, no more than timeout_seconds elapse
C35_WaitsWithinTimeout ==
    f_pc # "idle" => monotonic - f_start <= f_timeout

\* C36: a fetch whose worker acquisition fails ends at once with an exception:
\* no navigation attempt, no disposable worker, no second acquisition and no
\* call of _return_driver
C36_AcquireFailureNotRetried ==
    [][(f_pc = "acquire" /\ f_driver' = "none") =>
            /\ f_pc' = "done"
            /\ f_result'.kind = "raise"
            /\ f_attempt' = 0
            /\ f_escalations' = 0
            /\ f_acquires' = 0
            /\ f_returns' = 0]_vars

\* a fetch ended by a failed acquisition
C36_Witness ==
    /\ f_pc = "done" /\ f_result.kind = "raise"
    /\ f_acquires = 0 /\ f_returns = 0 /\ f_attempt = 0

\* C37: whenever a fetch, in either profile, extracts markup that matches the
\* error-page phrase list, it makes the same-origin status probe, and it
\* returns the probed status >= 400 or else, with more than 3 s left,
\* escalates once to a disposable worker
C37_ErrorPageProbed ==
    [][(f_pc = "ready" /\ f_error_page /\ f_pc' = "release" /\ f_pending'.kind = "ok") =>
            /\ f_probes' = f_probes + 1
            /\ \/ f_pending'.status >= 400
               \/ f_escalations' = f_escalations + 1
               \/ TimeBudget_left(deadline', monotonic') <= 3]_vars

\* ---------------------------------------------------------------------------
\* Locks and blocking waits

\* the thread is blocked in _driver_pools[key].get(timeout=...)
InQueueGet(t) == tpc[t] \in {"get", "retry"}

\* the thread is at a `with _scaling_lock:` block that the model runs as one step
AtScalingLockBlock(t) == tpc[t] \in {"incr", "have"}

\* C38: a thread blocked in the idle-queue get holds neither _scaling_lock nor
\* _pool_lock, a request awaiting the admission semaphore does not hold
\* _request_lock, and _pool_sizes and _pool_usage change only in steps made
\* with _scaling_lock held
C38_NoLockAcrossWait ==
    [][/\ \A t \in Threads : InQueueGet(t) => (_scaling_lock # t /\ _pool_lock # t)
       /\ Blocked # {} => ~_request_lock
       /\ (_pool_sizes' # _pool_sizes \/ _pool_usage' # _pool_usage) =>
            \E t \in Threads :
                /\ tpc'[t] # tpc[t]
                /\ \/ _scaling_lock = t
                   \/ AtScalingLockBlock(t) /\ _scaling_lock = NoThread]_vars

\* C39: a _get_driver that raises its timeout error leaves _pool_usage[key] as
\* it was before the call: the step that raises gives back the increment of
\* lines 213-214
C39_FailedAcquireRestoresUsage ==
    [][\A t \in Threads :
        (tpc[t] \in {"emerg", "emerg_cs", "retry"} /\ AcquireFailed(t)) =>
            _pool_usage'[tkey[t]] = _pool_usage[tkey[t]] - 1]_vars

\* C40: once no request is in progress the admission state is the initial
\* one: no request in flight, none waiting, every permit of the semaphore free
C40_QuiescentAdmissionIsInitial ==
    (\A r \in Requests : rpc[r] \in {"new", "done"}) =>
        /\ _concurrent_requests = 0
        /\ _waiting_count = 0
        /\ _request_semaphore = _max_concurrent

====
